---- MODULE Spec2Model ----
(***************************************************************************)
(* WebScanner: the crawler (backend/app/crawler.py) driving the fetcher    *)
(* (backend/app/fetcher.py).                                               *)
(*                                                                         *)
(* crawl() runs on one asyncio event loop: a task runs without             *)
(* interruption from one await that suspends to the next.  Each action     *)
(* below is one such uninterrupted stretch of the main task or of a        *)
(* worker task.                                                            *)
(*                                                                         *)
(* URL text is modelled by its parse: kind says how the text is written    *)
(*   "abs"       scheme://netloc/path                                      *)
(*   "protorel"  //netloc/path                                             *)
(*   "rootrel"   /path                                                     *)
(*   "rel"       path                                                      *)
(*   "opaque"    scheme:path            (mailto:, javascript:)             *)
(* and path is the sequence of the segments between the slashes, so that   *)
(* a trailing slash is a last segment "".  The netloc "[" stands for an    *)
(* authority with an unbalanced bracket, on which urlparse raises          *)
(* ValueError("Invalid IPv6 URL").                                         *)
(***************************************************************************)
EXTENDS Integers, Sequences, FiniteSets, TLC

\* ---------------------------------------------------------------- bounds
\* Largest max_pages and concurrency a Crawler is constructed with.
MaxPages == 6
MaxConcurrency == 2

\* ------------------------------------------------------ program constants
\* crawler.py:78  range(min(5, self.max_pages))
NUM_WORKERS == 5

\* ---------------------------------------------------------------- URLs
Abs(s, n, p) == [kind |-> "abs", scheme |-> s, netloc |-> n, path |-> p]
ProtoRel(n, p) == [kind |-> "protorel", scheme |-> "", netloc |-> n, path |-> p]
RootRel(p) == [kind |-> "rootrel", scheme |-> "", netloc |-> "", path |-> p]
Rel(p) == [kind |-> "rel", scheme |-> "", netloc |-> "", path |-> p]
Opaque(s, p) == [kind |-> "opaque", scheme |-> s, netloc |-> "", path |-> p]

Min(a, b) == IF a <= b THEN a ELSE b

Range(s) == {s[i] : i \in DOMAIN s}

\* All orders in which the elements of S can be iterated (a Python set has no
\* defined iteration order).
Orders(S) ==
  {s \in [1..Cardinality(S) -> S] : \A i, j \in DOMAIN s : i # j => s[i] # s[j]}

\* str.rstrip('/') on URL text: every trailing slash goes.
RECURSIVE RStripSlashPath(_)
RStripSlashPath(p) ==
  IF p # <<>> /\ p[Len(p)] = ""
  THEN RStripSlashPath(SubSeq(p, 1, Len(p) - 1))
  ELSE p

RStripSlashNone(u) == u

RStripSlash(u) == [u EXCEPT !.path = RStripSlashPath(u.path)]

\* urlparse(url) raises ValueError on an unbalanced bracket in the authority.
UrlparseRaises(u) == u.kind \in {"abs", "protorel"} /\ u.netloc = "["

\* urlparse(url).netloc and .scheme
Netloc(u) == IF u.kind \in {"abs", "protorel"} THEN u.netloc ELSE ""
Scheme(u) == IF u.kind \in {"abs", "opaque"} THEN u.scheme ELSE ""

VARIABLES
  base_url,     \* the argument of Crawler(base_url, ...)
  base,         \* self.base (self.parsed is its parse)
  max_pages,    \* self.max_pages
  concurrency,  \* the argument of Crawler(..., concurrency): Fetcher's budget
  site,         \* the site that answers the requests (environment)
  sem,          \* self.fetcher.sem: free permits
  seen,         \* self.seen: a set, kept as the sequence of its members
  found_forms,  \* self.found_forms
  q,            \* asyncio.Queue: the items not yet taken
  unfinished,   \* asyncio.Queue._unfinished_tasks (what q.join() waits on)
  nworkers,     \* len(workers): tasks created by crawl()
  wpc,          \* where each worker task stands
  wurl,         \* the url a worker holds
  mainpc,       \* where crawl() stands
  result,       \* the value crawl() returned
  fetched       \* history: how many requests were sent for each url

\* The fetcher under XSSTester._fetch_text, with time (FetchSpec)
VARIABLES
  now,          \* the clock, in ticks of 0.1 s
  f_conc,       \* Fetcher(concurrency)
  f_sem,        \* Fetcher.sem: free permits
  f_last,       \* Fetcher._last_request_time
  host_sem,     \* XSSTester._host_locks: free permits per host
  host_last,    \* XSSTester._host_last_ts
  call,         \* where each caller of _fetch_text stands
  sent          \* history: every attempt put on the wire

\* One request through Fetcher._request, alone or under _fetch_text (MergeSpec)
VARIABLES
  m_in,         \* the configured defaults and the caller's headers and cookies
  m_out         \* the headers and cookies handed to the client

\* XSSTester.test_reflected_get (XssSpec)
VARIABLES
  x_in,         \* the arguments and the tester's configuration
  x_pc,         \* where test_reflected_get stands
  x_loop,       \* its local variables
  results,      \* results
  x_obs,        \* history: what the attempts of the current payload returned
  x_trace       \* history: x_obs of every payload done

\* XSSTester.scan_urls_stream / scan_forms_stream (StreamSpec)
VARIABLES
  s_in,         \* which stream, the tester's dom flag, the semaphore's size
  s_sem,        \* sem: free permits
  s_task,       \* the _worker tasks, by position in the submitted list
  s_fin,        \* the tasks that have finished, in order of completion
  s_cons,       \* the generator's position: futures taken, items left to yield
  s_stream      \* history: the items yielded so far

\* SQLiTester.basic_diff (SqliSpec)
VARIABLES
  b_in,         \* the URL's parameters
  b_pc,         \* where basic_diff stands
  b_loop,       \* its local variables
  b_results,    \* results
  b_log         \* history: every probe sent and its reply

\* One call of a function without state (UrlSpec, SimSpec, SqlmapSpec)
VARIABLES
  p_in,         \* the function and its arguments
  p_out         \* what it returned

cvars == <<base_url, base, max_pages, concurrency, site, sem, seen, found_forms,
           q, unfinished, nworkers, wpc, wurl, mainpc, result, fetched>>

fvars == <<now, f_conc, f_sem, f_last, host_sem, host_last, call, sent>>

mvars == <<m_in, m_out>>

xvars == <<x_in, x_pc, x_loop, results, x_obs, x_trace>>

svars == <<s_in, s_sem, s_task, s_fin, s_cons, s_stream>>

bvars == <<b_in, b_pc, b_loop, b_results, b_log>>

pvars == <<p_in, p_out>>

\* the variables of the specifications below XssSpec
late == <<svars, bvars, pvars>>

early == <<cvars, fvars, mvars, xvars>>

\* what crawl() leaves alone
probes == <<fvars, mvars, xvars, late>>

vars == <<cvars, probes>>

Workers == 1..NUM_WORKERS

NoUrl == [kind |-> "none", scheme |-> "", netloc |-> "", path |-> <<>>]
NoResult == [urls |-> <<>>, forms |-> <<>>]

\* ------------------------------------------------------------ the sites
UHome == Abs("http", "site", <<>>)
UHomeSlash == Abs("http", "site", <<"">>)
UA == Abs("http", "site", <<"a">>)
UB == Abs("http", "site", <<"b">>)
UC == Abs("http", "site", <<"c">>)
UOther == Abs("http", "other", <<"x">>)
UMail == Opaque("mailto", <<"x">>)
UBadAbs == Abs("http", "[", <<>>)

NoAction == NoUrl
EmptyPage == [hrefs |-> {}, forms |-> <<>>]

\* What each site serves at each URL: the hrefs of its <a> tags and its
\* <form> elements as written in the HTML.
Page(s, u) ==
  CASE s = "single" -> EmptyPage
    [] s = "diamond" /\ u = UHome ->
         [hrefs |-> {RootRel(<<"a">>), Rel(<<"b">>)},
          forms |-> << [action |-> Rel(<<"search">>), method |-> "GET",
                        inputs |-> << <<"q", "">> >>] >>]
    [] s = "diamond" /\ u = UA ->
         [hrefs |-> {UC, ProtoRel("other", <<"x">>)}, forms |-> <<>>]
    [] s = "diamond" /\ u = UB ->
         [hrefs |-> {ProtoRel("site", <<"c">>), UOther, UMail},
          forms |-> << [action |-> NoAction, method |-> "POST",
                        inputs |-> << <<"q", "">>, <<"", "go">> >>] >>]
    [] s = "diamond" /\ u = UC ->
         [hrefs |-> {RootRel(<<"a">>)}, forms |-> <<>>]
    [] s = "broken" /\ u = UHome ->
         [hrefs |-> {RootRel(<<"a">>), ProtoRel("[", <<>>)},
          forms |-> << [action |-> RootRel(<<"a">>), method |-> "",
                        inputs |-> <<>>] >>]
    [] s = "broken" /\ u = UA ->
         [hrefs |-> {UBadAbs, RootRel(<<"b">>)}, forms |-> <<>>]
    [] OTHER -> EmptyPage

\* The (site, base_url) pairs crawled.
Targets ==
  { <<"single", UHome>>, <<"single", UHomeSlash>>,
    <<"diamond", UHomeSlash>>, <<"broken", UHome>> }


\* ------------------------------------------------------------- Crawler
\* crawler.py:23-30  _normalize raises where urlparse does (line 28); the
\* two startswith branches return before any parse of the link.
NormalizeRaises(u) == u.kind \notin {"protorel", "rootrel"} /\ UrlparseRaises(u)

Normalize(u) ==
  CASE u.kind = "protorel" -> Abs(Scheme(base), u.netloc, u.path)
    [] u.kind = "rootrel" -> Abs(base.scheme, base.netloc, u.path)
    [] u.kind = "rel" -> Abs(base.scheme, base.netloc, base.path \o u.path)
    [] OTHER -> u

\* crawler.py:16-21
SameDomainAny(u) == TRUE

SameDomain(u) ==
  IF UrlparseRaises(u)
  THEN FALSE
  ELSE Netloc(u) = Netloc(base) \/ Netloc(u) = ""

\* set.add on the sequence that stands for the set
SetAddDup(s, u) == Append(s, u)

SetAdd(s, u) == IF u \in Range(s) THEN s ELSE Append(s, u)

\* str(form.get("method") or "get").lower()
MethodOf(m) ==
  CASE m = "" -> "get"
    [] m = "POST" -> "post"
    [] m = "GET" -> "get"
    [] OTHER -> m

\* inputs[name] = value on a dict kept as a sequence of <<name, value>>
DictSet(d, k, v) ==
  IF \E i \in DOMAIN d : d[i][1] = k
  THEN [i \in DOMAIN d |-> IF d[i][1] = k THEN <<k, v>> ELSE d[i]]
  ELSE Append(d, <<k, v>>)

\* crawler.py:40-44  inputs without a name are skipped
RECURSIVE InputsOf(_, _)
InputsOf(ins, acc) ==
  IF ins = <<>> THEN acc
  ELSE InputsOf(Tail(ins),
                IF Head(ins)[1] = "" THEN acc
                ELSE DictSet(acc, Head(ins)[1], Head(ins)[2]))

\* crawler.py:37-45  the forms appended to found_forms, up to the first form
\* whose action _normalize raises on
RECURSIVE ParseForms(_, _, _)
ParseForms(forms, current, acc) ==
  IF forms = <<>> THEN [raised |-> FALSE, forms |-> acc]
  ELSE LET f == Head(forms)
           action == IF f.action = NoAction THEN current ELSE f.action
       IN IF NormalizeRaises(action)
          THEN [raised |-> TRUE, forms |-> acc]
          ELSE ParseForms(Tail(forms), current,
                 Append(acc, [action |-> Normalize(action),
                              method |-> MethodOf(f.method),
                              inputs |-> InputsOf(f.inputs, <<>>)]))

\* crawler.py:32-46  _parse: links first, then the forms
Parse(page, current) ==
  IF \E h \in page.hrefs : NormalizeRaises(h)
  THEN [raised |-> TRUE, links |-> {}, forms |-> <<>>]
  ELSE LET pf == ParseForms(page.forms, current, <<>>)
       IN [raised |-> pf.raised,
           links |-> {Normalize(h) : h \in page.hrefs},
           forms |-> pf.forms]

\* crawler.py:78
WorkerCountFixed == NUM_WORKERS

WorkerCount == Min(NUM_WORKERS, max_pages)

\* crawler.py:58-63  the dequeued url is dropped without a fetch
DiscardSeenOnly(w) == wurl[w] \in Range(seen)

Discard(w) == Len(seen) >= max_pages \/ wurl[w] \in Range(seen)

\* asyncio.Semaphore.acquire returns at once while a permit is free
CanAcquireAlways(s) == TRUE

CanAcquire(s) == s > 0

\* aiohttp sends http(s) requests only; any request may fail
CanSucceed(u) == u.kind = "abs" /\ u.scheme \in {"http", "https"} /\ ~UrlparseRaises(u)

BagAdd(b, u) ==
  IF u \in DOMAIN b
  THEN [b EXCEPT ![u] = @ + 1]
  ELSE [x \in DOMAIN b \cup {u} |-> IF x = u THEN 1 ELSE b[x]]

\* list(self.seen): the members in some order
ListOf(s) ==
  {[i \in DOMAIN s |-> s[p[i]]] : p \in Orders(DOMAIN s)}

\* ------------------------------------------- fetcher and probe constants
\* Time is counted in ticks of 0.2 s.
\* fetcher.py:20  polite_delay = 0.2
FETCH_DELAY == 1
\* xss_tester.py:67  polite_delay = 0.2
HOST_DELAY == 1
\* xss_tester.py:86  asyncio.Semaphore(4)
HOST_PERMITS == 4
\* fetcher.py:17  attempts = 2
ATTEMPTS == 2
\* fetcher.py:25  ExponentialRetry(attempts=attempts): the wait before the
\* retry is the library's default start_timeout 0.1 s * factor 2
RETRY_WAIT == 1

\* bounds of FetchSpec
NumCallers == 2
MaxTime == 1

Callers == 1..NumCallers
Hosts == {"h1", "h2"}
\* str(e) of the exception of a failed request; str(asyncio.TimeoutError())
\* is the empty string
Errors == {"", "Connection reset"}

NoReply == [ok |-> FALSE, error |-> "none", pending |-> TRUE]
IdleCall ==
  [pc |-> "idle", host |-> "", wake |-> 0, attempt |-> 0, raised |-> FALSE,
   exc |-> "none", reply |-> NoReply]

\* no _fetch_text call is under way
FetchIdle ==
  /\ now = 0
  /\ f_conc = 1
  /\ f_sem = 1
  /\ f_last = 0 - FETCH_DELAY
  /\ host_sem = [h \in Hosts |-> HOST_PERMITS]
  /\ host_last = [h \in Hosts |-> 0 - HOST_DELAY]
  /\ call = [c \in 1..NumCallers |-> IdleCall]
  /\ sent = {}

NoDict == [k \in {} |-> <<>>]
NoRequest == [sent |-> FALSE, headers |-> NoDict, cookies |-> NoDict]
NoMergeInput ==
  [token |-> "", cookies |-> NoDict, via |-> "fetcher", auth_headers |-> NoDict,
   headers |-> NoDict, has_cookies |-> FALSE, caller_cookies |-> NoDict]

\* no request is being put together
MergeIdle ==
  /\ m_in = NoMergeInput
  /\ m_out = NoRequest

NoLoop == [idx |-> 0]
NoObs == [fetches |-> 0]

\* test_reflected_get is not running
XssIdle ==
  /\ x_in = [query |-> FALSE]
  /\ x_pc = "idle"
  /\ x_loop = NoLoop
  /\ results = <<>>
  /\ x_obs = NoObs
  /\ x_trace = <<>>

NoConsumer == [pc |-> "idle", taken |-> 0, cur |-> <<>>]

\* no stream is open
StreamIdle ==
  /\ s_in = [kind |-> "none"]
  /\ s_sem = 0
  /\ s_task = <<>>
  /\ s_fin = <<>>
  /\ s_cons = NoConsumer
  /\ s_stream = <<>>

\* basic_diff is not running
SqliIdle ==
  /\ b_in = [nparams |-> 0]
  /\ b_pc = "idle"
  /\ b_loop = [p |-> 0]
  /\ b_results = <<>>
  /\ b_log = <<>>

NoCall == [fn |-> "none"]

\* no function is being called
PureIdle ==
  /\ p_in = NoCall
  /\ p_out = NoCall

LateIdle ==
  /\ StreamIdle
  /\ SqliIdle
  /\ PureIdle

\* ---------------------------------------------------------------- Init
\* Crawler(base_url, concurrency, max_pages); main.py:37-38 keep both >= 1
Init ==
  /\ \E t \in Targets :
       /\ site = t[1]
       /\ base_url = t[2]
       /\ base = RStripSlash(t[2])
  /\ max_pages \in 1..MaxPages
  /\ concurrency \in 1..MaxConcurrency
  /\ sem = concurrency
  /\ seen = <<>>
  /\ found_forms = <<>>
  /\ q = <<>>
  /\ unfinished = 0
  /\ nworkers = 0
  /\ wpc = [w \in Workers |-> "none"]
  /\ wurl = [w \in Workers |-> NoUrl]
  /\ mainpc = "init"
  /\ result = NoResult
  /\ fetched = [u \in {} |-> 0]
  /\ FetchIdle
  /\ MergeIdle
  /\ XssIdle
  /\ LateIdle

config == <<base_url, base, max_pages, concurrency, site>>

\* ------------------------------------------------------------- actions
\* crawler.py:49-51,78-80  up to the suspension in q.join()
CrawlStart ==
  /\ mainpc = "init"
  /\ q' = Append(q, base)
  /\ unfinished' = unfinished + 1
  /\ nworkers' = WorkerCount
  /\ wpc' = [w \in Workers |-> IF w <= WorkerCount THEN "idle" ELSE "none"]
  /\ mainpc' = "join"
  /\ UNCHANGED <<config, probes, sem, seen, found_forms, wurl, result, fetched>>

\* crawler.py:55  q.get() hands over the oldest item
Dequeue(w) ==
  /\ wpc[w] = "idle"
  /\ q # <<>>
  /\ wurl' = [wurl EXCEPT ![w] = Head(q)]
  /\ q' = Tail(q)
  /\ wpc' = [wpc EXCEPT ![w] = "check"]
  /\ UNCHANGED <<config, probes, sem, seen, found_forms, unfinished, nworkers, mainpc,
                 result, fetched>>

\* crawler.py:55-57 with a timeout that also fires while an item is queued
IdleTimeoutAnytime(w) ==
  /\ wpc[w] = "idle"
  /\ wpc' = [wpc EXCEPT ![w] = "exited"]
  /\ UNCHANGED <<config, probes, sem, seen, found_forms, q, unfinished, nworkers, wurl,
                 mainpc, result, fetched>>

\* crawler.py:55-57  nothing arrived within the timeout: the worker returns
IdleTimeout(w) ==
  /\ wpc[w] = "idle"
  /\ q = <<>>
  /\ wpc' = [wpc EXCEPT ![w] = "exited"]
  /\ UNCHANGED <<config, probes, sem, seen, found_forms, q, unfinished, nworkers, wurl,
                 mainpc, result, fetched>>

\* crawler.py:58-65 with q.task_done() called as soon as the url is taken
CheckDoneFirst(w) ==
  /\ wpc[w] = "check"
  /\ unfinished' = unfinished - 1
  /\ IF Discard(w)
     THEN /\ wpc' = [wpc EXCEPT ![w] = "idle"]
          /\ wurl' = [wurl EXCEPT ![w] = NoUrl]
          /\ UNCHANGED <<sem, fetched>>
     ELSE IF CanAcquire(sem)
     THEN /\ sem' = sem - 1
          /\ wpc' = [wpc EXCEPT ![w] = "inflight"]
          /\ fetched' = BagAdd(fetched, wurl[w])
          /\ UNCHANGED wurl
     ELSE /\ wpc' = [wpc EXCEPT ![w] = "waitsem"]
          /\ UNCHANGED <<sem, fetched, wurl>>
  /\ UNCHANGED <<config, probes, seen, found_forms, q, nworkers, mainpc, result>>

\* crawler.py:58-65 and fetcher.py:45-57  discard, or enter fetcher.get and
\* take a permit if one is free
Check(w) ==
  /\ wpc[w] = "check"
  /\ IF Discard(w)
     THEN /\ unfinished' = unfinished - 1
          /\ wpc' = [wpc EXCEPT ![w] = "idle"]
          /\ wurl' = [wurl EXCEPT ![w] = NoUrl]
          /\ UNCHANGED <<sem, fetched>>
     ELSE IF CanAcquire(sem)
     THEN /\ sem' = sem - 1
          /\ wpc' = [wpc EXCEPT ![w] = "inflight"]
          /\ fetched' = BagAdd(fetched, wurl[w])
          /\ UNCHANGED <<unfinished, wurl>>
     ELSE /\ wpc' = [wpc EXCEPT ![w] = "waitsem"]
          /\ UNCHANGED <<sem, fetched, unfinished, wurl>>
  /\ UNCHANGED <<config, probes, seen, found_forms, q, nworkers, mainpc, result>>

\* fetcher.py:57  a waiter gets a released permit
Acquire(w) ==
  /\ wpc[w] = "waitsem"
  /\ CanAcquire(sem)
  /\ sem' = sem - 1
  /\ wpc' = [wpc EXCEPT ![w] = "inflight"]
  /\ fetched' = BagAdd(fetched, wurl[w])
  /\ UNCHANGED <<config, probes, seen, found_forms, q, unfinished, nworkers, wurl,
                 mainpc, result>>

\* fetcher.py:58-65  the response arrives; leaving the with block frees the
\* permit.  crawler.py:66 then awaits the body.
RequestOk(w) ==
  /\ wpc[w] = "inflight"
  /\ CanSucceed(wurl[w])
  /\ sem' = sem + 1
  /\ wpc' = [wpc EXCEPT ![w] = "text"]
  /\ UNCHANGED <<config, probes, seen, found_forms, q, unfinished, nworkers, wurl,
                 mainpc, result, fetched>>

\* crawler.py:67-71 without the handler: the exception ends the worker's task
FetchErrorUncaught(w) ==
  /\ wpc' = [wpc EXCEPT ![w] = "failed"]
  /\ wurl' = [wurl EXCEPT ![w] = NoUrl]
  /\ UNCHANGED <<seen, unfinished>>

\* crawler.py:67-71  the url is marked seen, its item done
FetchError(w) ==
  /\ seen' = SetAdd(seen, wurl[w])
  /\ unfinished' = unfinished - 1
  /\ wpc' = [wpc EXCEPT ![w] = "idle"]
  /\ wurl' = [wurl EXCEPT ![w] = NoUrl]

\* fetcher.py:57-64  the request raises: the permit is freed on the way out
RequestFail(w) ==
  /\ wpc[w] = "inflight"
  /\ sem' = sem + 1
  /\ FetchError(w)
  /\ UNCHANGED <<config, probes, found_forms, q, nworkers, mainpc, result, fetched>>

\* crawler.py:66-71  reading the body raises
TextFail(w) ==
  /\ wpc[w] = "text"
  /\ FetchError(w)
  /\ UNCHANGED <<config, probes, sem, found_forms, q, nworkers, mainpc, result, fetched>>

\* crawler.py:72-77 with the test "l not in self.seen" left out
ProcessPutSeen(w) ==
  /\ wpc[w] = "text"
  /\ LET url == wurl[w]
         r == Parse(Page(site, url), url)
         toPut == {l \in r.links : SameDomain(l)}
     IN /\ seen' = SetAdd(seen, url)
        /\ found_forms' = found_forms \o r.forms
        /\ IF r.raised
           THEN /\ wpc' = [wpc EXCEPT ![w] = "failed"]
                /\ UNCHANGED <<q, unfinished>>
           ELSE /\ \E order \in Orders(toPut) : q' = q \o order
                /\ unfinished' = unfinished + Cardinality(toPut) - 1
                /\ wpc' = [wpc EXCEPT ![w] = "idle"]
        /\ wurl' = [wurl EXCEPT ![w] = NoUrl]
  /\ UNCHANGED <<config, probes, sem, nworkers, mainpc, result, fetched>>

\* crawler.py:72-77  mark seen, parse, enqueue, task_done.  An exception of
\* _parse leaves the worker coroutine: its task ends, task_done is not called.
Process(w) ==
  /\ wpc[w] = "text"
  /\ LET url == wurl[w]
         r == Parse(Page(site, url), url)
         seen1 == SetAdd(seen, url)
         toPut == {l \in r.links : SameDomain(l) /\ l \notin Range(seen1)}
     IN /\ seen' = seen1
        /\ found_forms' = found_forms \o r.forms
        /\ IF r.raised
           THEN /\ wpc' = [wpc EXCEPT ![w] = "failed"]
                /\ UNCHANGED <<q, unfinished>>
           ELSE /\ \E order \in Orders(toPut) : q' = q \o order
                /\ unfinished' = unfinished + Cardinality(toPut) - 1
                /\ wpc' = [wpc EXCEPT ![w] = "idle"]
        /\ wurl' = [wurl EXCEPT ![w] = NoUrl]
  /\ UNCHANGED <<config, probes, sem, nworkers, mainpc, result, fetched>>

\* crawler.py:80-84  q.join() returns once every item is done
Return ==
  /\ mainpc = "join"
  /\ unfinished = 0
  /\ wpc' = [w \in Workers |->
               IF wpc[w] \in {"none", "exited", "failed"} THEN wpc[w]
               ELSE "cancelled"]
  /\ \E urls \in ListOf(seen) : result' = [urls |-> urls, forms |-> found_forms]
  /\ mainpc' = "returned"
  /\ UNCHANGED <<config, probes, sem, seen, found_forms, q, unfinished, nworkers, wurl,
                 fetched>>

WorkerStep(w) ==
  \/ Dequeue(w)
  \/ IdleTimeout(w)
  \/ Check(w)
  \/ Acquire(w)
  \/ RequestOk(w)
  \/ RequestFail(w)
  \/ TextFail(w)
  \/ Process(w)

Next ==
  \/ CrawlStart
  \/ \E w \in Workers : WorkerStep(w)
  \/ Return

Spec == Init /\ [][Next]_vars


\* The event loop runs every task that can run, and every request completes.
FairSpec ==
  /\ Spec
  /\ WF_vars(CrawlStart)
  /\ \A w \in Workers : WF_vars(WorkerStep(w))
  /\ WF_vars(Return)

\* ------------------------------------------------------------- claims
InFlight == {w \in Workers : wpc[w] = "inflight"}
Holding == {w \in Workers : wpc[w] \in {"check", "waitsem", "inflight", "text"}}
Count(s, u) == Cardinality({i \in DOMAIN s : s[i] = u})

\* C1: the crawl never fetches more than max_pages distinct URLs, and neither
\* the visited set nor the returned urls list holds more than max_pages URLs.
C1_PageBudget ==
  /\ Cardinality(DOMAIN fetched) <= max_pages
  /\ Len(seen) <= max_pages
  /\ Len(result.urls) <= max_pages

\* C2: within one crawl no URL is fetched more than once.
C2_NoDuplicateFetch == \A u \in DOMAIN fetched : fetched[u] <= 1

\* C3: a URL is in visited exactly once and in the returned urls list exactly
\* once, also when several workers fetched it.
C3_VisitedOnce ==
  /\ \A u \in Range(seen) : Count(seen, u) = 1
  /\ mainpc = "returned" =>
       /\ \A u \in Range(seen) : Count(result.urls, u) = 1
       /\ Range(result.urls) = Range(seen)

C3_Witness ==
  /\ mainpc = "returned"
  /\ \E u \in DOMAIN fetched : fetched[u] >= 2 /\ Count(result.urls, u) = 1

\* C4: crawl() eventually returns, every fetch completing.
C4_CrawlReturns == <>(mainpc = "returned")

\* C5: a parse failure costs the offending link or form only: no worker
\* stops on it, and every dequeued URL stays accounted for in the queue
\* (each item not yet done is either pending or held by a running worker).
C5_ParseFailureSkipsLink ==
  /\ \A w \in Workers : wpc[w] # "failed"
  /\ unfinished = Len(q) + Cardinality(Holding)

\* C6: a start page without links and forms: crawl() returns exactly the
\* start URL, stripped of its trailing slash, and no forms.
C6_SinglePage ==
  (mainpc = "returned" /\ Page(site, UHome) = EmptyPage) =>
    /\ result.urls = <<UHome>>
    /\ Range(seen) = {UHome}
    /\ result.forms = <<>>

C6_Witness ==
  /\ mainpc = "returned"
  /\ site = "single"
  /\ base_url = UHomeSlash
  /\ max_pages >= NUM_WORKERS
  /\ result.urls = <<UHome>>

\* C7: a worker whose dequeued URL meets len(visited) >= max_pages, or is in
\* visited, drops it: nothing is fetched, nothing is marked, the item is
\* done and the worker goes back to the queue; and crawl() returns only with
\* the queue drained and every item done.
C7_DrainAfterBudget ==
  /\ [][\A w \in Workers :
          ( /\ wpc[w] = "check"
            /\ Len(seen) >= max_pages \/ wurl[w] \in Range(seen)
            /\ wpc'[w] # "check" )
          => /\ wpc'[w] = "idle"
             /\ unfinished' = unfinished - 1
             /\ fetched' = fetched
             /\ seen' = seen
             /\ sem' = sem]_vars
  /\ [](mainpc = "returned" => q = <<>> /\ unfinished = 0)

C7_Witness ==
  /\ mainpc = "returned"
  /\ site = "diamond"
  /\ found_forms # <<>>
  /\ Len(seen) = max_pages
  /\ DOMAIN fetched = {UHome}

\* C8: every URL enqueued, held by a worker, fetched or visited has the start
\* URL's network location or none.
C8_SameOriginOnly ==
  \A u \in Range(q) \cup {wurl[w] : w \in Holding} \cup DOMAIN fetched
             \cup Range(seen) :
    /\ ~UrlparseRaises(u)
    /\ Netloc(u) = Netloc(base) \/ Netloc(u) = ""

C8_Witness ==
  /\ UMail \in Range(q)
  /\ UB \in Range(seen)
  /\ UOther \notin Range(q)

\* C9 as claimed: min(concurrency, max_pages) workers are spawned.
C9_WorkersMinConcurrency ==
  mainpc # "init" => nworkers = Min(concurrency, max_pages)

\* C9 as amended: min(5, max_pages) workers are spawned, whatever the
\* concurrency.
C9_WorkersMinFive ==
  mainpc # "init" =>
    /\ nworkers = Min(5, max_pages)
    /\ Cardinality({w \in Workers : wpc[w] # "none"}) = nworkers

C9_Witness ==
  /\ mainpc # "init"
  /\ max_pages > 5
  /\ concurrency < 5
  /\ nworkers = 5

\* C10: at most `concurrency` requests are in flight.
C10_InFlightBound ==
  /\ Cardinality(InFlight) <= concurrency
  /\ sem = concurrency - Cardinality(InFlight)

C10_Witness ==
  /\ Cardinality(InFlight) = concurrency
  /\ \E w \in Workers : wpc[w] = "waitsem"


\* =========================================================================
\* XSSTester._fetch_text over Fetcher._request, with time        (FetchSpec)
\* =========================================================================
\* Callers are concurrent tasks, each making one _fetch_text call.  A task
\* runs from one suspending await to the next: the sleeps, a semaphore
\* without a free permit, the request, the reading of the body.

SetCall(c, r) == call' = [call EXCEPT ![c] = r]

\* fetcher.py:59-64  an attempt goes on the wire
Send(c, h, retry) ==
  sent' = sent \cup {[caller |-> c, host |-> h, time |-> now, retry |-> retry]}

\* xss_tester.py:125-134  the except branch of _fetch_text
\* (r: the exception came out of fetcher.get; exc keeps its text)
FetchTextUncaught(c, e, r) ==
  SetCall(c, [call[c] EXCEPT !.pc = "crashed", !.raised = r, !.exc = e])

FetchTextCaught(c, e, r) ==
  SetCall(c, [call[c] EXCEPT !.pc = "done", !.raised = r, !.exc = e,
                             !.reply = [ok |-> FALSE, error |-> e,
                                        pending |-> FALSE]])

\* fetcher.py:38-43,59-64  _apply_rate_limit and the first attempt, entered
\* with the permit taken
RateLimit(c, h) ==
  /\ f_sem' = f_sem - 1
  /\ IF now - f_last < FETCH_DELAY
     THEN /\ SetCall(c, [call[c] EXCEPT !.pc = "fsleep", !.host = h,
                           !.wake = now + (FETCH_DELAY - (now - f_last))])
          /\ UNCHANGED <<f_last, sent>>
     ELSE /\ f_last' = now
          /\ Send(c, h, FALSE)
          /\ SetCall(c, [call[c] EXCEPT !.pc = "inflight", !.host = h,
                           !.attempt = 1])

\* fetcher.py:57  async with self.sem
EnterRequest(c, h) ==
  IF CanAcquire(f_sem)
  THEN RateLimit(c, h)
  ELSE /\ SetCall(c, [call[c] EXCEPT !.pc = "fwait", !.host = h])
       /\ UNCHANGED <<f_sem, f_last, sent>>

\* xss_tester.py:113-127  _fetch_text up to its first suspension: the host's
\* permit (taken once one is free), the host's spacing, then fetcher.get
Call(c, h) ==
  /\ call[c].pc = "idle"
  /\ host_sem[h] > 0
  /\ LET delta == HOST_DELAY - (now - host_last[h])
     IN IF delta > 0
        THEN /\ host_sem' = [host_sem EXCEPT ![h] = @ - 1]
             /\ SetCall(c, [call[c] EXCEPT !.pc = "hsleep", !.host = h,
                              !.wake = now + delta])
             /\ UNCHANGED <<host_last, f_sem, f_last, sent>>
        ELSE /\ host_last' = [host_last EXCEPT ![h] = now]
             /\ UNCHANGED host_sem
             /\ EnterRequest(c, h)
  /\ UNCHANGED <<cvars, late, mvars, xvars, now, f_conc>>

\* xss_tester.py:102-105  the sleep of _throttle_for_host ends
HostWake(c) ==
  /\ call[c].pc = "hsleep"
  /\ now >= call[c].wake
  /\ host_last' = [host_last EXCEPT ![call[c].host] = now]
  /\ host_sem' = [host_sem EXCEPT ![call[c].host] = @ + 1]
  /\ EnterRequest(c, call[c].host)
  /\ UNCHANGED <<cvars, late, mvars, xvars, now, f_conc>>

\* fetcher.py:57  a waiter gets a freed permit
FetcherAcquire(c) ==
  /\ call[c].pc = "fwait"
  /\ CanAcquire(f_sem)
  /\ RateLimit(c, call[c].host)
  /\ UNCHANGED <<cvars, late, mvars, xvars, now, f_conc, host_sem, host_last>>

\* fetcher.py:42-43,59-64  the sleep of _apply_rate_limit ends
FetcherWake(c) ==
  /\ call[c].pc = "fsleep"
  /\ now >= call[c].wake
  /\ f_last' = now
  /\ Send(c, call[c].host, FALSE)
  /\ SetCall(c, [call[c] EXCEPT !.pc = "inflight", !.attempt = 1])
  /\ UNCHANGED <<cvars, late, mvars, xvars, now, f_conc, f_sem, host_sem, host_last>>

\* fetcher.py:59-65, xss_tester.py:130  the response arrives; the permit is
\* freed and the body is awaited
ResponseOk(c) ==
  /\ call[c].pc = "inflight"
  /\ f_sem' = f_sem + 1
  /\ SetCall(c, [call[c] EXCEPT !.pc = "text"])
  /\ UNCHANGED <<cvars, late, mvars, xvars, now, f_conc, f_last, host_sem, host_last, sent>>

\* fetcher.py:57-64 with a bare acquire and no release on the way out
AttemptFailLeaks(c, e) ==
  /\ call[c].pc = "inflight"
  /\ IF call[c].attempt < ATTEMPTS
     THEN SetCall(c, [call[c] EXCEPT !.pc = "backoff",
                        !.wake = now + RETRY_WAIT])
     ELSE FetchTextCaught(c, e, TRUE)
  /\ UNCHANGED <<cvars, late, mvars, xvars, now, f_conc, f_sem, f_last, host_sem,
                 host_last, sent>>

\* fetcher.py:25-31,59-64  an attempt fails.  The RetryClient waits and
\* tries again inside client.get while attempts are left; after the last
\* one the exception leaves _request (the with block frees the permit) and
\* reaches the except branch of _fetch_text.
AttemptFail(c, e) ==
  /\ call[c].pc = "inflight"
  /\ IF call[c].attempt < ATTEMPTS
     THEN /\ SetCall(c, [call[c] EXCEPT !.pc = "backoff",
                           !.wake = now + RETRY_WAIT])
          /\ UNCHANGED f_sem
     ELSE /\ f_sem' = f_sem + 1
          /\ FetchTextCaught(c, e, TRUE)
  /\ UNCHANGED <<cvars, late, mvars, xvars, now, f_conc, f_last, host_sem, host_last, sent>>

\* fetcher.py:25-31  the retry goes out from inside the RetryClient
Retry(c) ==
  /\ call[c].pc = "backoff"
  /\ now >= call[c].wake
  /\ Send(c, call[c].host, TRUE)
  /\ SetCall(c, [call[c] EXCEPT !.pc = "inflight", !.attempt = @ + 1])
  /\ UNCHANGED <<cvars, late, mvars, xvars, now, f_conc, f_sem, f_last, host_sem, host_last>>

\* xss_tester.py:130-131
TextOk(c) ==
  /\ call[c].pc = "text"
  /\ SetCall(c, [call[c] EXCEPT !.pc = "done",
                   !.reply = [ok |-> TRUE, error |-> "none", pending |-> FALSE]])
  /\ UNCHANGED <<cvars, late, mvars, xvars, now, f_conc, f_sem, f_last, host_sem, host_last, sent>>

\* xss_tester.py:130-134  reading the body raises
TextRaises(c, e) ==
  /\ call[c].pc = "text"
  /\ FetchTextCaught(c, e, FALSE)
  /\ UNCHANGED <<cvars, late, mvars, xvars, now, f_conc, f_sem, f_last, host_sem, host_last, sent>>

Sleeping(c) == call[c].pc \in {"hsleep", "fsleep", "backoff"}

\* time passes; a sleeper whose time has come runs first
TickTo(limit) ==
  /\ now < limit
  /\ \A c \in DOMAIN call : Sleeping(c) => call[c].wake > now
  /\ now' = now + 1
  /\ UNCHANGED <<cvars, late, mvars, xvars, f_conc, f_sem, f_last, host_sem, host_last, call, sent>>

Tick == TickTo(MaxTime)

\* A crawler that is not running
CrawlerIdle ==
  /\ base_url = UHome
  /\ base = UHome
  /\ site = "single"
  /\ max_pages = 1
  /\ concurrency = 1
  /\ sem = 1
  /\ seen = <<>>
  /\ found_forms = <<>>
  /\ q = <<>>
  /\ unfinished = 0
  /\ nworkers = 0
  /\ wpc = [w \in Workers |-> "none"]
  /\ wurl = [w \in Workers |-> NoUrl]
  /\ mainpc = "init"
  /\ result = NoResult
  /\ fetched = [u \in {} |-> 0]

\* Fetcher(concurrency) and XSSTester(fetcher); prev is the host of a request
\* sent just before, if there was one
FetchInit ==
  /\ CrawlerIdle
  /\ MergeIdle
  /\ XssIdle
  /\ LateIdle
  /\ now = 0
  /\ f_conc \in 1..MaxConcurrency
  /\ f_sem = f_conc
  /\ \E prev \in Hosts \cup {"none"} :
       /\ f_last = IF prev = "none" THEN 0 - FETCH_DELAY ELSE 0
       /\ host_last = [h \in Hosts |-> IF h = prev THEN 0 ELSE 0 - HOST_DELAY]
  /\ host_sem = [h \in Hosts |-> HOST_PERMITS]
  /\ call = [c \in 1..NumCallers |-> IdleCall]
  /\ sent = {}

FetchNext ==
  \/ \E c \in Callers, h \in Hosts : Call(c, h)
  \/ \E c \in Callers : HostWake(c)
  \/ \E c \in Callers : FetcherAcquire(c)
  \/ \E c \in Callers : FetcherWake(c)
  \/ \E c \in Callers : ResponseOk(c)
  \/ \E c \in Callers, e \in Errors : AttemptFail(c, e)
  \/ \E c \in Callers : Retry(c)
  \/ \E c \in Callers : TextOk(c)
  \/ \E c \in Callers, e \in Errors : TextRaises(c, e)
  \/ Tick

FetchSpec == FetchInit /\ [][FetchNext]_vars


\* ---------------------------------------------------------------- HostSpec
\* The probes of one scan against a server that answers every request:
\* scan_urls runs min(20, 2 * concurrency) workers over one tester, whose
\* fetcher was made with the request's concurrency (main.py:176-181).

\* config.py:9  MAX_CONCURRENCY, the default and the upper limit of
\* ScanRequest.concurrency (main.py:38)
MAX_CONCURRENCY == 5

NumProbes == 5
MaxScanTime == 2

Probes == 1..NumProbes

\* the URLs of a scan come from the crawl of one site (crawler.py:16-21)
SITE_HOST == "h1"

HostInit ==
  /\ CrawlerIdle
  /\ MergeIdle
  /\ XssIdle
  /\ LateIdle
  /\ now = 0
  /\ f_conc \in 1..MAX_CONCURRENCY
  /\ f_sem = f_conc
  /\ f_last = 0 - FETCH_DELAY
  /\ host_last = [h \in Hosts |-> 0 - HOST_DELAY]
  /\ host_sem = [h \in Hosts |-> HOST_PERMITS]
  /\ call = [c \in Probes |-> IdleCall]
  /\ sent = {}

ScanTick == TickTo(MaxScanTime)

HostNext ==
  \/ \E c \in Probes : Call(c, SITE_HOST)
  \/ \E c \in Probes : HostWake(c)
  \/ \E c \in Probes : FetcherAcquire(c)
  \/ \E c \in Probes : FetcherWake(c)
  \/ \E c \in Probes : ResponseOk(c)
  \/ \E c \in Probes : TextOk(c)
  \/ ScanTick

HostSpec == HostInit /\ [][HostNext]_vars


\* C11: no host receives two requests closer together than the minimum
\* spacing, under any interleaving of the callers.
C11_HostSpacing ==
  \A a, b \in sent :
    (a # b /\ a.host = b.host /\ a.time <= b.time)
      => b.time - a.time >= FETCH_DELAY

\* C12 as claimed: no exception ever comes out of Fetcher.get / Fetcher.post.
C12_FetcherNeverRaises == \A c \in Callers : ~call[c].raised

\* C12 as amended: the exception of a failed request comes out of
\* Fetcher.get / post, and _fetch_text hands it to its caller as a reply
\* with ok = False and the exception's text: no _fetch_text call ends by an
\* exception of the request or of the reading of the body.
C12_FailureInReply ==
  \A c \in Callers :
    /\ call[c].pc # "crashed"
    /\ call[c].exc # "none" =>
         /\ call[c].pc = "done"
         /\ call[c].reply = [ok |-> FALSE, error |-> call[c].exc,
                             pending |-> FALSE]

C12_Witness ==
  \E c \in Callers :
    /\ call[c].raised
    /\ call[c].pc = "done"
    /\ call[c].reply.error = "Connection reset"
    /\ f_sem = f_conc

\* C14: every retry passes through the spacing throttle: it is not sent
\* within the minimum spacing of another attempt to its host, and the
\* last-request time is brought up to it.
C14_RetriesThrottled ==
  \A a \in sent :
    a.retry =>
      /\ f_last >= a.time
      /\ \A b \in sent :
           (b # a /\ b.host = a.host) =>
             \/ b.time - a.time >= FETCH_DELAY
             \/ a.time - b.time >= FETCH_DELAY


\* =========================================================================
\* The headers and cookies of a request                         (MergeSpec)
\* =========================================================================
\* A dict is a function from its keys.

\* d.setdefault(k, v)
SetDefault(d, k, v) ==
  [x \in DOMAIN d \cup {k} |-> IF x \in DOMAIN d THEN d[x] ELSE v]

\* d[k] = v
SetItem(d, k, v) == [x \in DOMAIN d \cup {k} |-> IF x = k THEN v ELSE d[x]]

\* {**a, **b} and a.update(b): b wins
DictMerge(a, b) ==
  [x \in DOMAIN a \cup DOMAIN b |-> IF x \in DOMAIN b THEN b[x] ELSE a[x]]

Dict1(k, v) == [x \in {k} |-> v]

\* a header or cookie value: a string, written as the sequence of its parts
Str(s) == <<s>>

\* fetcher.py:32
USER_AGENT == Str("webscanner/1.0")

\* f"Bearer {self._auth_token}"
Bearer(token) == <<"Bearer ", token>>

\* xss_tester.py:117-123  _fetch_text: headers.update(self.auth_headers)
FetchTextHeaders(headers, auth_headers) == DictMerge(headers, auth_headers)

\* fetcher.py:46-49
RequestHeaders(headers, token) ==
  LET h == SetDefault(headers, "User-Agent", USER_AGENT)
  IN IF token # "" THEN SetItem(h, "Authorization", Bearer(token)) ELSE h

\* fetcher.py:52-55
RequestCookies(cookies, has_cookies, caller_cookies) ==
  IF has_cookies THEN DictMerge(cookies, caller_cookies) ELSE cookies

CallerHeaders ==
  { NoDict,
    Dict1("User-Agent", Str("caller-agent")),
    Dict1("Authorization", Str("Basic dXNlcg==")),
    SetItem(Dict1("User-Agent", Str("caller-agent")), "Authorization", Str("Basic dXNlcg==")),
    Dict1("Accept", Str("text/html")) }

CookieJars ==
  { NoDict, Dict1("sid", Str("default")),
    SetItem(Dict1("sid", Str("default")), "theme", Str("dark")) }

CallerCookies == { NoDict, Dict1("sid", Str("caller")), Dict1("lang", Str("en")) }

\* main.py:177  auth_headers={"Authorization": "Bearer MYTOKEN"}
AuthHeaders == { NoDict, Dict1("Authorization", Bearer("MYTOKEN")) }

\* Fetcher(auth_token, cookies) [XSSTester(fetcher, auth_headers)] and the
\* keyword arguments of one get/post
MergeInit ==
  /\ CrawlerIdle
  /\ FetchIdle
  /\ XssIdle
  /\ LateIdle
  /\ m_in \in [token : {"", "T"}, cookies : CookieJars,
               via : {"fetcher", "fetch_text"}, auth_headers : AuthHeaders,
               headers : CallerHeaders, has_cookies : BOOLEAN,
               caller_cookies : CallerCookies]
  /\ m_in.via = "fetcher" => m_in.auth_headers = NoDict
  /\ ~m_in.has_cookies => m_in.caller_cookies = NoDict
  /\ m_out = NoRequest

\* fetcher.py:45-64  (xss_tester.py:117-129 before it, for a call through
\* _fetch_text): the request handed to the client
SendRequest ==
  /\ ~m_out.sent
  /\ LET h == IF m_in.via = "fetch_text"
              THEN FetchTextHeaders(m_in.headers, m_in.auth_headers)
              ELSE m_in.headers
     IN m_out' = [sent |-> TRUE,
                  headers |-> RequestHeaders(h, m_in.token),
                  cookies |-> RequestCookies(m_in.cookies, m_in.has_cookies,
                                             m_in.caller_cookies)]
  /\ UNCHANGED <<cvars, late, fvars, xvars, m_in>>

MergeNext == SendRequest

MergeSpec == MergeInit /\ [][MergeNext]_vars

\* C13: the request carries the defaults and the caller's headers and
\* cookies, and the caller's value on every key both give.
C13_CallerWins ==
  m_out.sent =>
    /\ \A k \in DOMAIN m_in.headers : m_out.headers[k] = m_in.headers[k]
    /\ \A k \in DOMAIN m_in.caller_cookies :
         m_out.cookies[k] = m_in.caller_cookies[k]
    /\ DOMAIN m_out.headers =
         DOMAIN m_in.headers \cup DOMAIN m_in.auth_headers \cup {"User-Agent"}
           \cup (IF m_in.token # "" THEN {"Authorization"} ELSE {})
    /\ DOMAIN m_out.cookies = DOMAIN m_in.cookies \cup DOMAIN m_in.caller_cookies


\* =========================================================================
\* XSSTester.test_reflected_get / test_reflected_post            (XssSpec)
\* =========================================================================
\* One call of the probe.  Each _fetch_text reply is the server's choice: a
\* failure with its reason, or a body.  A body is known by the markers it
\* contains and by the ratio (in hundredths) that _similarity gives for it
\* against the baseline after _normalize_html.

MaxPayloads == 2
MaxRetries == 2
\* the values uuid4().hex[:8] is drawn from (xss_tester.py:91)
MarkerIds == {"m1", "m2"}
\* similarity ratios, in hundredths
Ratios == {92, 100}
\* xss_tester.py:143  similarity_threshold = 0.98, and a lower one
DEFAULT_THRESHOLD == 98
Thresholds == {90, DEFAULT_THRESHOLD}
\* xss_tester.py:200  similarity_threshold + 0.05
SUSPECT_BAND == 5
\* xss_tester.py:165  best_sim = 1.0
FULL_RATIO == 100
\* xss_tester.py:129  getattr(resp, "status", None) of a reply with a body
STATUS_OK == "200"

\* xss_tester.py:14-21  DEFAULT_XSS_PAYLOADS: the first template alone has
\* the {MARK} placeholder
DEFAULT_XSS_PAYLOADS ==
  << [tmpl |-> 1, has_mark |-> TRUE],  [tmpl |-> 2, has_mark |-> FALSE],
     [tmpl |-> 3, has_mark |-> FALSE], [tmpl |-> 4, has_mark |-> FALSE],
     [tmpl |-> 5, has_mark |-> FALSE], [tmpl |-> 6, has_mark |-> FALSE] >>

\* self.payloads
Payloads == SubSeq(DEFAULT_XSS_PAYLOADS, 1, x_in.npayloads)

\* payload_template.replace("{MARK}", marker)
ReplaceMark(template, marker) ==
  [tmpl |-> template.tmpl, mark |-> IF template.has_mark THEN marker ELSE ""]

Texts == [marks : SUBSET MarkerIds, ratio : Ratios]

\* best_text = ""
EmptyText == [marks |-> {}, ratio |-> FULL_RATIO]

\* marker in text
MarkerInNever(marker, text) == FALSE

MarkerIn(marker, text) == marker \in text.marks

\* _similarity(_normalize_html(base_text), _normalize_html(text))
Similarity(base_text, text) == text.ratio

\* xss_tester.py:181-183  if sim < best_sim: best_sim = sim; best_text = text
KeepLowest(best, sim, text) ==
  IF sim < best.sim THEN [sim |-> sim, text |-> text] ELSE best

\* the truth value of `error` in `if error:`
Truthy(error) == error \notin {"none", ""}

\* the locals at the top of the payload loop, xss_tester.py:157-168
StartPayload(idx, marker, base_text) ==
  [idx |-> idx, i |-> 0, marker |-> marker,
   payload |-> ReplaceMark(Payloads[idx], marker),
   best_sim |-> FULL_RATIO, best_text |-> EmptyText,
   last_status |-> "None", error |-> "none", base_text |-> base_text]

\* history of one payload: nothing fetched yet
StartObs(idx) ==
  [tmpl |-> Payloads[idx].tmpl, fetches |-> 0, lowest |-> FULL_RATIO + 1,
   hit |-> 0, hit_ratio |-> 0, failed |-> FALSE, last_error |-> "none"]

\* xss_tester.py:185-194
MarkerFinding(L, status, sim) ==
  [payload |-> L.payload, marker |-> L.marker, reflected |-> TRUE,
   suspected |-> FALSE, status |-> status, similarity |-> sim]

\* xss_tester.py:198-210
BestFinding(L, status, best) ==
  LET reflected == MarkerIn(L.marker, best.text) \/ best.sim < x_in.threshold
  IN [payload |-> L.payload, marker |-> L.marker, reflected |-> reflected,
      suspected |-> ~reflected /\ best.sim < x_in.threshold + SUSPECT_BAND,
      status |-> status, similarity |-> best.sim]

\* xss_tester.py:213-222
ErrorFinding(L, status, error) ==
  [payload |-> L.payload, marker |-> L.marker, reflected |-> FALSE,
   suspected |-> FALSE, status |-> status, error |-> error]

\* the end of one pass of the payload loop: the next payload with a new
\* marker, or return results
EndPayload(res, obs) ==
  /\ results' = res
  /\ x_trace' = Append(x_trace, obs)
  /\ IF x_loop.idx < Len(Payloads)
     THEN /\ \E m \in MarkerIds :
               x_loop' = StartPayload(x_loop.idx + 1, m, x_loop.base_text)
          /\ x_obs' = StartObs(x_loop.idx + 1)
          /\ x_pc' = "attempt"
     ELSE /\ x_loop' = NoLoop
          /\ x_obs' = NoObs
          /\ x_pc' = "returned"


\* test_reflected_get(url, param, similarity_threshold, retries) or
\* test_reflected_post(form, similarity_threshold, retries) is called
XssInit ==
  /\ CrawlerIdle
  /\ FetchIdle
  /\ MergeIdle
  /\ LateIdle
  /\ x_in \in [variant : {"get", "post"}, query : BOOLEAN,
               retries : 0..MaxRetries, threshold : Thresholds,
               npayloads : 1..MaxPayloads]
  /\ x_pc = "called"
  /\ x_loop = NoLoop
  /\ results = <<>>
  /\ x_obs = NoObs
  /\ x_trace = <<>>

\* xss_tester.py:149-152 (236-239): a URL without a query string returns
\* no finding, a form without a URL one error entry
ReturnEarly ==
  /\ x_pc = "called"
  /\ ~x_in.query
  /\ results' = IF x_in.variant = "get" THEN <<>>
                ELSE <<[error |-> "no url in form"]>>
  /\ x_pc' = "returned"
  /\ UNCHANGED <<cvars, late, fvars, mvars, x_in, x_loop, x_obs, x_trace>>

\* xss_tester.py:154 (247): the baseline is requested
FetchBaseline ==
  /\ x_pc = "called"
  /\ x_in.query
  /\ x_pc' = "baseline"
  /\ UNCHANGED <<cvars, late, fvars, mvars, x_in, x_loop, results, x_obs, x_trace>>

\* xss_tester.py:154-168 (247-266): the baseline reply, then the first
\* payload up to its first fetch
Baseline(ok) ==
  /\ x_pc = "baseline"
  /\ \E m \in MarkerIds :
       x_loop' = StartPayload(1, m, IF ok THEN "base" ELSE "")
  /\ x_obs' = StartObs(1)
  /\ x_pc' = "attempt"
  /\ UNCHANGED <<cvars, late, fvars, mvars, x_in, results, x_trace>>

\* xss_tester.py:171-175, 212-222 (269-273, 308-318): the attempt failed
AttemptFailed(e) ==
  /\ x_pc = "attempt"
  /\ LET L == [x_loop EXCEPT !.error = e, !.last_status = "None"]
         obs == [x_obs EXCEPT !.fetches = @ + 1, !.failed = TRUE,
                              !.last_error = e]
     IN EndPayload(IF Truthy(L.error)
                   THEN Append(results, ErrorFinding(L, L.last_status, L.error))
                   ELSE results,
                   obs)
  /\ UNCHANGED <<cvars, late, fvars, mvars, x_in>>

\* xss_tester.py:176-210 (274-306): the attempt returned a body
AttemptOk(text) ==
  /\ x_pc = "attempt"
  /\ LET L == x_loop
         sim == Similarity(L.base_text, text)
         best == KeepLowest([sim |-> L.best_sim, text |-> L.best_text], sim, text)
         n == x_obs.fetches + 1
         seen_marker == L.marker \in text.marks
         obs == [x_obs EXCEPT !.fetches = n,
                              !.lowest = IF sim < @ THEN sim ELSE @,
                              !.hit = IF @ = 0 /\ seen_marker THEN n ELSE @,
                              !.hit_ratio = IF x_obs.hit = 0 /\ seen_marker
                                            THEN sim ELSE @]
     IN IF MarkerIn(L.marker, text)
        THEN /\ EndPayload(Append(results, MarkerFinding(L, STATUS_OK, sim)), obs)
             /\ UNCHANGED x_in
        ELSE IF L.i < x_in.retries
        THEN /\ x_loop' = [L EXCEPT !.i = @ + 1, !.best_sim = best.sim,
                                    !.best_text = best.text,
                                    !.last_status = STATUS_OK]
             /\ x_obs' = obs
             /\ UNCHANGED <<x_in, x_pc, results, x_trace>>
        ELSE /\ EndPayload(Append(results, BestFinding(L, STATUS_OK, best)), obs)
             /\ UNCHANGED x_in
  /\ UNCHANGED <<cvars, late, fvars, mvars>>

XssNext ==
  \/ ReturnEarly
  \/ FetchBaseline
  \/ \E ok \in BOOLEAN : Baseline(ok)
  \/ \E e \in Errors : AttemptFailed(e)
  \/ \E text \in Texts : AttemptOk(text)

XssSpec == XssInit /\ [][XssNext]_vars


\* ------------------------------------------------------- claims C15..C20
\* the findings of the payload made from template t
FindingsOf(t) ==
  { i \in DOMAIN results :
      "payload" \in DOMAIN results[i] /\ results[i].payload.tmpl = t }

\* the history of the payload a finding is about
ObsOf(f) == CHOOSE o \in Range(x_trace) : o.tmpl = f.payload.tmpl

\* the findings that stand for a payload
Findings == { results[i] : i \in UNION { FindingsOf(o.tmpl) : o \in Range(x_trace) } }

\* C15: once a response contains the marker, the payload's finding is
\* reflected=True and no further attempt is made for that payload: its
\* number of fetches is the index of the first response with the marker.
C15_MarkerShortCircuit ==
  /\ x_pc = "attempt" => x_obs.hit = 0
  /\ \A o \in Range(x_trace) :
       o.hit > 0 =>
         /\ o.fetches = o.hit
         /\ \E i \in FindingsOf(o.tmpl) :
              /\ FindingsOf(o.tmpl) = {i}
              /\ results[i].reflected
              /\ ~results[i].suspected

C15_Witness ==
  \E o \in Range(x_trace) :
    /\ o.hit = 2
    /\ o.fetches = 2
    /\ x_in.retries = 2
    /\ \E i \in FindingsOf(o.tmpl) : results[i].reflected

\* C16: every finding with a similarity carries the lowest
\* similarity observed over the attempts of its payload, the marker
\* short-circuit's finding included.
C16_LowestSimilarity ==
  \A f \in Findings :
    "similarity" \in DOMAIN f => f.similarity = ObsOf(f).lowest

\* C17: when every attempt of a payload returned a body, none with the
\* marker, the finding is clean (reflected=False, suspected=False) if the
\* lowest similarity is >= the threshold, and reflected if it is below.
C17_CleanAtThreshold ==
  \A f \in Findings :
    LET o == ObsOf(f)
    IN (~o.failed /\ o.hit = 0) =>
         /\ o.lowest >= x_in.threshold => (~f.reflected /\ ~f.suspected)
         /\ o.lowest < x_in.threshold => f.reflected

\* C18: a payload whose fetch attempts all failed has an error finding
\* (reflected=False, suspected=False) with the reason of the last failure.
C18_ErrorFinding ==
  \A o \in Range(x_trace) :
    (o.failed /\ o.fetches = 1) =>
      \E i \in FindingsOf(o.tmpl) :
        /\ "error" \in DOMAIN results[i]
        /\ results[i].error = o.last_error
        /\ ~results[i].reflected
        /\ ~results[i].suspected

\* C19: for a URL with a query string (a form with a URL) the probe returns
\* exactly one finding per payload template, in payload-list order.
C19_OneFindingPerPayload ==
  (x_pc = "returned" /\ x_in.query) =>
    /\ Len(results) = Len(Payloads)
    /\ \A i \in DOMAIN results : results[i].payload.tmpl = Payloads[i].tmpl

\* C20: no two findings carry the same marker.
C20_UniqueMarkers ==
  \A i, j \in DOMAIN results :
    (i < j /\ "marker" \in DOMAIN results[i] /\ "marker" \in DOMAIN results[j])
      => results[i].marker # results[j].marker


\* C21: the marker recorded in a finding is embedded in the payload that was
\* sent: the finding's payload contains the finding's marker.
C21_MarkerInPayload ==
  \A i \in DOMAIN results :
    "payload" \in DOMAIN results[i] =>
      results[i].payload.mark = results[i].marker


\* the requests to host h that are on the wire
OnWire(h) == { c \in DOMAIN call : call[c].pc = "inflight" /\ call[c].host = h }

\* C22: at most 4 requests to the same host are in flight at any moment,
\* whatever the fetcher's concurrency and the number of probes.
C22_HostInFlightBound ==
  \A h \in Hosts : Cardinality(OnWire(h)) <= HOST_PERMITS


\* =========================================================================
\* XSSTester.scan_urls_stream / scan_forms_stream               (StreamSpec)
\* =========================================================================
\* The stream has created one _worker task per URL (form) and iterates
\* asyncio.as_completed(tasks).  A finding is known by its task, its serial
\* number in the task and its classification.

MaxTasks == 2
MaxScanPermits == 2

Tasks == DOMAIN s_task

TaskIds == 1..MaxTasks

\* what one test_reflected_get / test_reflected_post call returns
Subs == { <<"error">>, <<"suspected", "error">> }

\* the URLs of scan_urls_stream: without a query, with one or two
\* parameters, and one that urlparse rejects
UrlTargets ==
  { [kind |-> "url", nparams |-> 0, bad |-> FALSE],
    [kind |-> "url", nparams |-> 1, bad |-> FALSE],
    [kind |-> "url", nparams |-> 2, bad |-> FALSE],
    [kind |-> "url", nparams |-> 0, bad |-> TRUE] }

\* the forms of scan_forms_stream: one that _normalize rejects, a GET form
\* with one parameter in its URL, a POST form
FormTargets ==
  { [kind |-> "form_get", nparams |-> 1, bad |-> TRUE],
    [kind |-> "form_get", nparams |-> 1, bad |-> FALSE],
    [kind |-> "form_post", nparams |-> 1, bad |-> FALSE] }

NewTask(target) ==
  [pc |-> "new", target |-> target, params |-> 0, rest |-> <<>>,
   got |-> <<>>, out |-> <<>>]

\* the findings of one call, as dicts
Tagged(w, from, sub) ==
  [i \in DOMAIN sub |-> [task |-> w, n |-> from + i, class |-> sub[i]]]

\* xss_tester.py:345  self.dom and (r.get("reflected") or r.get("suspected"));
\* scan_forms_stream has no such step
NeedsDom(r) ==
  /\ s_in.dom
  /\ s_in.kind = "urls"
  /\ r.class \in {"reflected", "suspected"}

\* xss_tester.py:347-350  r["dom_executed"] = dom_ok, False on an exception
DomRecorded(r, outcome) ==
  <<[task |-> r.task, n |-> r.n, class |-> r.class,
     dom |-> outcome, dom_executed |-> (outcome = "true")]>>

\* xss_tester.py:343-351  for r in sub: up to the first r that needs the DOM
\* check; the result is <<results, rest>>
RECURSIVE AppendPlain(_, _)
AppendPlain(out, rest) ==
  IF rest = <<>> \/ NeedsDom(Head(rest))
  THEN <<out, rest>>
  ELSE AppendPlain(Append(out, Head(rest)), Tail(rest))

\* a task ends: async with sem releases, as_completed sees the future done
Finish(w, pc, t) ==
  /\ s_task' = [s_task EXCEPT ![w] = [t EXCEPT !.pc = pc, !.rest = <<>>]]
  /\ s_sem' = s_sem + 1
  /\ s_fin' = Append(s_fin, w)

\* the worker goes on after a call's findings are dealt with: the DOM check
\* of the next finding, the next parameter's call, or return results
Continue(w, t) ==
  LET moved == AppendPlain(t.out, t.rest)
      u == [t EXCEPT !.out = moved[1], !.rest = moved[2]]
  IN IF u.rest # <<>>
     THEN /\ s_task' = [s_task EXCEPT ![w] = [u EXCEPT !.pc = "dom"]]
          /\ UNCHANGED <<s_sem, s_fin>>
     ELSE IF u.params > 0
     THEN /\ s_task' = [s_task EXCEPT ![w] = [u EXCEPT !.pc = "probe"]]
          /\ UNCHANGED <<s_sem, s_fin>>
     ELSE Finish(w, "done", u)


\* scan_urls_stream(urls, concurrency) or scan_forms_stream(forms,
\* concurrency) up to its first suspension: the tasks are created
\* everything before StreamSpec is idle
EarlyIdle ==
  /\ CrawlerIdle
  /\ FetchIdle
  /\ MergeIdle
  /\ XssIdle

\* <<concurrency, max_concurrency>>: the caller asks for less than the
\* tester allows, or for more
ScanSizes ==
  { <<c, MaxScanPermits>> : c \in 1..(MaxScanPermits - 1) } \cup
  { <<MaxScanPermits + 1, MaxScanPermits>> }

\* xss_tester.py:328 (371)  min(concurrency, self.max_concurrency)
ScanPermits == Min(s_in.concurrency, s_in.max_concurrency)

StreamInit ==
  /\ EarlyIdle
  /\ SqliIdle
  /\ PureIdle
  /\ s_in \in [kind : {"urls", "forms"}, dom : BOOLEAN,
               concurrency : 1..(MaxScanPermits + 1),
               max_concurrency : {MaxScanPermits}]
  /\ <<s_in.concurrency, s_in.max_concurrency>> \in ScanSizes
  /\ s_sem = ScanPermits
  /\ \E n \in 1..MaxTasks :
       s_task \in [1..n -> { NewTask(t) :
                     t \in IF s_in.kind = "urls" THEN UrlTargets ELSE FormTargets }]
  /\ s_fin = <<>>
  /\ s_cons = [pc |-> "await", taken |-> 0, cur |-> <<>>]
  /\ s_stream = <<>>

\* xss_tester.py:335-339 (387-395): the body of _worker under the semaphore,
\* up to the first call of the probe
Enter(w) ==
  LET t == s_task[w]
      g == t.target
  IN IF g.bad /\ g.kind = "url"
     THEN \* urlparse(u) raises out of the task
          /\ s_task' = [s_task EXCEPT ![w] = [t EXCEPT !.pc = "raised"]]
          /\ s_fin' = Append(s_fin, w)
          /\ UNCHANGED s_sem
     ELSE IF g.bad \/ g.nparams = 0
     THEN \* return []
          /\ s_task' = [s_task EXCEPT ![w] = [t EXCEPT !.pc = "done"]]
          /\ s_fin' = Append(s_fin, w)
          /\ UNCHANGED s_sem
     ELSE /\ s_task' = [s_task EXCEPT ![w] = [t EXCEPT !.pc = "probe",
                                                      !.params = g.nparams]]
          /\ s_sem' = s_sem - 1
          /\ UNCHANGED s_fin

\* the task runs for the first time, without waiting for a permit
StartTaskUnbounded(w) ==
  /\ w \in Tasks
  /\ s_task[w].pc = "new"
  /\ Enter(w)
  /\ UNCHANGED <<early, bvars, pvars, s_in, s_cons, s_stream>>

\* the task runs for the first time: async with sem
StartTask(w) ==
  /\ w \in Tasks
  /\ s_task[w].pc = "new"
  /\ IF s_sem > 0
     THEN Enter(w)
     ELSE /\ s_task' = [s_task EXCEPT ![w].pc = "wait"]
          /\ UNCHANGED <<s_sem, s_fin>>
  /\ UNCHANGED <<early, bvars, pvars, s_in, s_cons, s_stream>>

\* a permit was released to a waiting task
AcquirePermit(w) ==
  /\ w \in Tasks
  /\ s_task[w].pc = "wait"
  /\ s_sem > 0
  /\ Enter(w)
  /\ UNCHANGED <<early, bvars, pvars, s_in, s_cons, s_stream>>

\* xss_tester.py:342-351 (402-408): test_reflected_get / test_reflected_post
\* returned sub
Probed(w, sub) ==
  /\ w \in Tasks
  /\ s_task[w].pc = "probe"
  /\ LET t == s_task[w]
         items == Tagged(w, Len(t.got), sub)
         u == [t EXCEPT !.params = @ - 1, !.got = @ \o items]
     IN IF t.target.kind = "form_post"
        THEN Finish(w, "done", [u EXCEPT !.out = items, !.params = 0])
        ELSE Continue(w, [u EXCEPT !.rest = items])
  /\ UNCHANGED <<early, bvars, pvars, s_in, s_cons, s_stream>>

\* xss_tester.py:346-351: _try_dom_check returned, or raised
DomChecked(w, outcome) ==
  /\ w \in Tasks
  /\ s_task[w].pc = "dom"
  /\ LET t == s_task[w]
     IN Continue(w, [t EXCEPT !.out = @ \o DomRecorded(Head(t.rest), outcome),
                              !.rest = Tail(@)])
  /\ UNCHANGED <<early, bvars, pvars, s_in, s_cons, s_stream>>

\* asyncio.as_completed: the k-th future it hands out is the k-th task to
\* finish (0: none has yet)
NextFutureSubmitted(k) == IF k \in Range(s_fin) THEN k ELSE 0

NextFuture(k) == IF k <= Len(s_fin) THEN s_fin[k] ELSE 0

\* xss_tester.py:359-368 (417-426): the generator runs to its next yield, to
\* the next await fut, or to its end
Generate(taken, cur) ==
  /\ IF cur # <<>>
     THEN /\ s_stream' = Append(s_stream, Head(cur))
          /\ s_cons' = [pc |-> "yielded", taken |-> taken, cur |-> Tail(cur)]
     ELSE /\ s_cons' = [pc |-> IF taken = Len(s_task) THEN "end" ELSE "await",
                        taken |-> taken, cur |-> <<>>]
          /\ UNCHANGED s_stream
  /\ UNCHANGED <<early, bvars, pvars, s_in, s_sem, s_task, s_fin>>

\* res = await fut: the result of the next finished task, or its exception,
\* which is logged
TakeResult ==
  /\ s_cons.pc = "await"
  /\ NextFuture(s_cons.taken + 1) # 0
  /\ LET w == NextFuture(s_cons.taken + 1)
     IN Generate(s_cons.taken + 1,
                 IF s_task[w].pc = "raised" THEN <<>> ELSE s_task[w].out)

\* the consumer asks for the next item
Resume ==
  /\ s_cons.pc = "yielded"
  /\ Generate(s_cons.taken, s_cons.cur)

StreamNext ==
  \/ \E w \in TaskIds : StartTask(w)
  \/ \E w \in TaskIds : AcquirePermit(w)
  \/ \E w \in TaskIds, sub \in Subs : Probed(w, sub)
  \/ \E w \in TaskIds, outcome \in {"true", "false", "raise"} : DomChecked(w, outcome)
  \/ TakeResult
  \/ Resume

StreamSpec == StreamInit /\ [][StreamNext]_vars


\* what await fut gives for task w
ResultOf(w) == IF s_task[w].pc = "raised" THEN <<>> ELSE s_task[w].out

\* the results of the tasks ws, one after the other
RECURSIVE Flatten(_)
Flatten(ws) ==
  IF ws = <<>> THEN <<>> ELSE ResultOf(Head(ws)) \o Flatten(Tail(ws))

\* C23: the streams deliver the workers' results in the order in which the
\* workers complete, every finding of every worker is yielded exactly once,
\* and the stream ends after all workers have finished.
C23_StreamInCompletionOrder ==
  /\ s_cons.taken <= Len(s_fin)
  /\ s_stream \o s_cons.cur = Flatten(SubSeq(s_fin, 1, s_cons.taken))
  /\ s_cons.pc = "end" =>
       /\ s_cons.taken = Len(s_task)
       /\ s_cons.cur = <<>>
       /\ \A w \in Tasks : s_task[w].pc \in {"done", "raised"}
       /\ \A w \in Tasks : \A i \in DOMAIN ResultOf(w) :
            Cardinality({ j \in DOMAIN s_stream : s_stream[j] = ResultOf(w)[i] }) = 1

C23_Witness ==
  /\ s_cons.pc = "end"
  /\ \E i, j \in DOMAIN s_stream :
       /\ i < j
       /\ s_stream[i].task = 2
       /\ s_stream[j].task = 1
  /\ Len(s_stream) = Len(ResultOf(1)) + Len(ResultOf(2))

\* C24: with the DOM check enabled, every reflected or suspected finding
\* carries a boolean dom_executed, False when the DOM step failed or raised,
\* and the DOM step removes no finding of the worker.
C24_DomRecorded ==
  \A w \in Tasks :
    (s_in.dom /\ s_task[w].pc = "done") =>
      LET t == s_task[w]
      IN /\ Len(t.out) = Len(t.got)
         /\ \A i \in DOMAIN t.out :
              /\ t.out[i].n = t.got[i].n
              /\ t.out[i].class \in {"reflected", "suspected"} =>
                   /\ "dom_executed" \in DOMAIN t.out[i]
                   /\ t.out[i].dom_executed = (t.out[i].dom = "true")


\* =========================================================================
\* SQLiTester.basic_diff                                          (SqliSpec)
\* =========================================================================
\* One call.  Each reply is the server's choice: a failure of the request or
\* of the body read, or a status and a body, known by its length.

MaxSqliParams == 2

\* sqli_tester.py:23
BASIC_PAYLOADS == <<"'", "\"", " OR 1=1 -- ">>

\* sqli_tester.py:93  resp.status >= 500
SERVER_ERROR == 500

Statuses == {200, 404, SERVER_ERROR, 503}

\* len(text): "" and "Hello"
Lengths == {0, 5}

Replies == [ok : {TRUE}, status : Statuses, len : Lengths]

FailedReply == [ok |-> FALSE, status |-> 0, len |-> 0]

\* sqli_tester.py:93
SuspiciousStatusOnly(status, len, base_len) == status >= SERVER_ERROR

Suspicious(status, len, base_len) ==
  status >= SERVER_ERROR \/ len # base_len

\* basic_diff(url) is called
SqliInit ==
  /\ EarlyIdle
  /\ StreamIdle
  /\ PureIdle
  /\ b_in \in [nparams : 0..MaxSqliParams]
  /\ b_pc = "called"
  /\ b_loop = [p |-> 0]
  /\ b_results = <<>>
  /\ b_log = <<>>

\* sqli_tester.py:73-77: a URL without parameters returns no finding
ReturnNoParams ==
  /\ b_pc = "called"
  /\ b_in.nparams = 0
  /\ b_pc' = "returned"
  /\ UNCHANGED <<early, svars, pvars, b_in, b_loop, b_results, b_log>>

\* sqli_tester.py:79-80: the baseline is requested
FetchBase ==
  /\ b_pc = "called"
  /\ b_in.nparams > 0
  /\ b_pc' = "baseline"
  /\ UNCHANGED <<early, svars, pvars, b_in, b_loop, b_results, b_log>>

\* sqli_tester.py:79-91: the baseline's body, or "" when the fetch failed;
\* then the first probe is sent
BaseReply(reply) ==
  /\ b_pc = "baseline"
  /\ b_loop' = [p |-> 1, k |-> 1, base_failed |-> ~reply.ok,
                base_len |-> IF reply.ok THEN reply.len ELSE 0]
  /\ b_pc' = "probe"
  /\ UNCHANGED <<early, svars, pvars, b_in, b_results, b_log>>

\* the loops go on: the next payload of p, the first payload of the next
\* parameter (at once when stop, the break), or return results
NextProbe(stop) ==
  IF ~stop /\ b_loop.k < Len(BASIC_PAYLOADS)
  THEN /\ b_loop' = [b_loop EXCEPT !.k = @ + 1]
       /\ UNCHANGED b_pc
  ELSE IF b_loop.p < b_in.nparams
  THEN /\ b_loop' = [b_loop EXCEPT !.p = @ + 1, !.k = 1]
       /\ UNCHANGED b_pc
  ELSE /\ b_loop' = b_loop
       /\ b_pc' = "returned"

\* the reply to a probe, where a failed request ends the parameter's sweep
ProbeReplyFailStops(reply) ==
  /\ b_pc = "probe"
  /\ LET payload == BASIC_PAYLOADS[b_loop.k]
         hit == reply.ok /\ Suspicious(reply.status, reply.len, b_loop.base_len)
     IN /\ b_log' = Append(b_log, [param |-> b_loop.p, payload |-> payload,
                                   reply |-> reply])
        /\ b_results' =
             IF hit
             THEN Append(b_results, [param |-> b_loop.p, payload |-> payload,
                                     suspected |-> TRUE, status |-> reply.status])
             ELSE b_results
        /\ NextProbe(hit \/ ~reply.ok)
  /\ UNCHANGED <<early, svars, pvars, b_in>>

\* sqli_tester.py:92-106: the reply to the probe of parameter p with
\* payload k
ProbeReply(reply) ==
  /\ b_pc = "probe"
  /\ LET payload == BASIC_PAYLOADS[b_loop.k]
         hit == reply.ok /\ Suspicious(reply.status, reply.len, b_loop.base_len)
     IN /\ b_log' = Append(b_log, [param |-> b_loop.p, payload |-> payload,
                                   reply |-> reply])
        /\ b_results' =
             IF hit
             THEN Append(b_results, [param |-> b_loop.p, payload |-> payload,
                                     suspected |-> TRUE, status |-> reply.status])
             ELSE b_results
        /\ NextProbe(hit)
  /\ UNCHANGED <<early, svars, pvars, b_in>>

SqliNext ==
  \/ ReturnNoParams
  \/ FetchBase
  \/ \E reply \in Replies \cup {FailedReply} : BaseReply(reply)
  \/ \E reply \in Replies \cup {FailedReply} : ProbeReply(reply)

SqliSpec == SqliInit /\ [][SqliNext]_vars

\* the probes sent for parameter p, in order
LogOf(p) == SelectSeq(b_log, LAMBDA e : e.param = p)

\* the reply calls for a flag
Flags(e) ==
  /\ e.reply.ok
  /\ (e.reply.status >= SERVER_ERROR \/ e.reply.len # b_loop.base_len)

FindingsFor(p) == { i \in DOMAIN b_results : b_results[i].param = p }

\* C25: for each parameter the payloads are tried in the order of
\* BASIC_PAYLOADS; a finding with suspected=True is made exactly when a reply
\* has status >= 500 or a length other than the baseline's; nothing more is
\* sent for the parameter after its first flag, so it has at most one
\* finding.
C25_FirstFlagStops ==
  \A p \in 1..b_in.nparams :
    LET log == LogOf(p)
    IN /\ Len(log) <= Len(BASIC_PAYLOADS)
       /\ \A i \in DOMAIN log :
            /\ log[i].payload = BASIC_PAYLOADS[i]
            /\ Flags(log[i]) => i = Len(log)
            /\ Flags(log[i]) <=>
                 \E j \in FindingsFor(p) :
                   /\ b_results[j].payload = log[i].payload
                   /\ b_results[j].status = log[i].reply.status
                   /\ b_results[j].suspected
       /\ Cardinality(FindingsFor(p)) <= 1
       /\ FindingsFor(p) # {} => \E i \in DOMAIN log : Flags(log[i])

C25_Witness ==
  /\ b_pc = "returned"
  /\ b_in.nparams = 2
  /\ Len(LogOf(1)) = 2
  /\ LogOf(1)[2].reply = [ok |-> TRUE, status |-> 200, len |-> 0]
  /\ b_loop.base_len = 5
  /\ \E j \in FindingsFor(1) : b_results[j].payload = "\""
  /\ Len(LogOf(2)) = 3
  /\ FindingsFor(2) = {}


\* =========================================================================
\* The probe URLs of basic_diff and test_reflected_get             (UrlSpec)
\* =========================================================================
\* A query is the sequence of its key=value fields; a value is the sequence
\* of its characters.  On the wire a query is a sequence of tokens: names,
\* safe characters, the escapes of quote_plus, and the separators & and =.

MaxQuery == 3

ParamNames == {"id", "tag"}

ParamValues == { <<>>, <<"5">>, <<"a", " ">> }

Fields == [key : ParamNames, value : ParamValues]

Queries == UNION { [1..n -> Fields] : n \in 1..MaxQuery }

\* sqli_tester.py:23, character by character
BASIC_PAYLOAD_CHARS ==
  { <<"'">>, <<"\"">>, <<" ", "O", "R", " ", "1", "=", "1", " ", "-", "-", " ">> }

\* xss_tester.py:13, the bare marker of a template that is only {MARK}
XSS_PAYLOAD_CHARS == { <<"<", "m", ">">>, <<"m", "&", "=">> }

\* urllib.parse.quote_plus, one character
QuoteChar(c) ==
  CASE c = " " -> "+"
    [] c = "'" -> "%27"
    [] c = "\"" -> "%22"
    [] c = "=" -> "%3D"
    [] c = "&" -> "%26"
    [] c = "<" -> "%3C"
    [] c = ">" -> "%3E"
    [] OTHER -> c

\* urllib.parse.unquote_plus, one token
UnquoteToken(t) ==
  CASE t = "+" -> " "
    [] t = "%27" -> "'"
    [] t = "%22" -> "\""
    [] t = "%3D" -> "="
    [] t = "%26" -> "&"
    [] t = "%3C" -> "<"
    [] t = "%3E" -> ">"
    [] OTHER -> t

QuotePlus(v) == [i \in DOMAIN v |-> QuoteChar(v[i])]

UnquotePlus(w) == [i \in DOMAIN w |-> UnquoteToken(w[i])]

\* the names of a query, each once, in the order of their first field
RECURSIVE FirstKeys(_)
FirstKeys(query) ==
  IF query = <<>> THEN <<>>
  ELSE LET before == FirstKeys(SubSeq(query, 1, Len(query) - 1))
           k == query[Len(query)].key
       IN IF \E i \in DOMAIN before : before[i] = k
          THEN before
          ELSE Append(before, k)

\* the values of name k, in the order of their fields
ValuesOf(query, k) ==
  LET own == SelectSeq(query, LAMBDA f : f.key = k)
  IN [i \in DOMAIN own |-> own[i].value]

\* urllib.parse.parse_qs(query, keep_blank_values=True): a dict keeps its
\* keys in the order of insertion, and each key has the list of its values
ParseQs(query) ==
  LET names == FirstKeys(query)
  IN [i \in DOMAIN names |->
        [key |-> names[i], values |-> ValuesOf(query, names[i])]]

\* urlencode's "&".join
RECURSIVE JoinFields(_)
JoinFields(ws) ==
  IF ws = <<>> THEN <<>>
  ELSE IF Len(ws) = 1 THEN ws[1]
  ELSE ws[1] \o <<"&">> \o JoinFields(Tail(ws))

\* urllib.parse.urlencode(mod): one field for each key of the dict
Urlencode(mod) ==
  JoinFields([i \in DOMAIN mod |->
                <<mod[i].key, "=">> \o QuotePlus(mod[i].value)])

\* the fields of a dict of lists, one for each value of each key
RECURSIVE Expand(_)
Expand(qs) ==
  IF qs = <<>> THEN <<>>
  ELSE [i \in DOMAIN qs[1].values |->
          [key |-> qs[1].key, value |-> qs[1].values[i]]]
       \o Expand(Tail(qs))

\* urllib.parse.urlencode(qs, doseq=True)
UrlencodeSeq(qs) == Urlencode(Expand(qs))

\* str.split(sep)
RECURSIVE Split(_, _)
Split(w, sep) ==
  IF \A i \in DOMAIN w : w[i] # sep THEN <<w>>
  ELSE LET i == CHOOSE j \in DOMAIN w :
                  w[j] = sep /\ \A l \in 1..(j - 1) : w[l] # sep
       IN <<SubSeq(w, 1, i - 1)>> \o Split(SubSeq(w, i + 1, Len(w)), sep)

\* urllib.parse.parse_qsl(wire, keep_blank_values=True): how the server, or
\* anyone, reads the query back
ParseQsl(wire) ==
  LET parts == SelectSeq(Split(wire, "&"), LAMBDA f : f # <<>>)
  IN [i \in DOMAIN parts |->
        LET nv == Split(parts[i], "=")
        IN [key |-> nv[1][1],
            value |-> IF Len(nv) > 1 THEN UnquotePlus(nv[2]) ELSE <<>>]]

\* sqli_tester.py:88-90
\*   mod = {k: v[0] for k, v in qs.items()}; mod[p] = mod.get(p, "") + payload
SqliProbeQuery(query, p, payload) ==
  LET qs == ParseQs(query)
      mod == [i \in DOMAIN qs |->
                [key |-> qs[i].key,
                 value |-> IF qs[i].key = p
                           THEN qs[i].values[1] \o payload
                           ELSE qs[i].values[1]]]
  IN Urlencode(mod)

\* xss_tester.py:160-162
\*   qs = parse_qs(...); qs[param] = [payload]; urlencode(qs, doseq=True)
XssProbeQuery(query, param, payload) ==
  LET qs == ParseQs(query)
      set == [i \in DOMAIN qs |->
                IF qs[i].key = param
                THEN [key |-> param, values |-> <<payload>>]
                ELSE qs[i]]
  IN UrlencodeSeq(set)

KeysIn(query) == { query[i].key : i \in DOMAIN query }

\* the URL of a crawled page, the parameter under test, and the payload
UrlInit ==
  /\ EarlyIdle
  /\ StreamIdle
  /\ SqliIdle
  /\ p_out = NoCall
  /\ \E query \in Queries : \E p \in KeysIn(query) :
       \/ \E payload \in BASIC_PAYLOAD_CHARS :
            p_in = [fn |-> "basic_diff", query |-> query, p |-> p,
                    payload |-> payload]
       \/ \E payload \in XSS_PAYLOAD_CHARS :
            p_in = [fn |-> "test_reflected_get", query |-> query, p |-> p,
                    payload |-> payload]

\* sqli_tester.py:88-91
BuildSqliTarget ==
  /\ p_in.fn = "basic_diff"
  /\ p_out = NoCall
  /\ p_out' = [fn |-> p_in.fn,
               new_q |-> SqliProbeQuery(p_in.query, p_in.p, p_in.payload)]
  /\ UNCHANGED <<early, svars, bvars, p_in>>

\* xss_tester.py:160-163
BuildXssTarget ==
  /\ p_in.fn = "test_reflected_get"
  /\ p_out = NoCall
  /\ p_out' = [fn |-> p_in.fn,
               new_q |-> XssProbeQuery(p_in.query, p_in.p, p_in.payload)]
  /\ UNCHANGED <<early, svars, bvars, p_in>>

UrlNext == BuildSqliTarget \/ BuildXssTarget

UrlSpec == UrlInit /\ [][UrlNext]_vars

\* the fields of the other parameters, in order
Others(query, p) == SelectSeq(query, LAMBDA f : f.key # p)

\* the values parameter p has in the query
Own(query, p) == { query[i].value : i \in { j \in DOMAIN query : query[j].key = p } }

\* C26: the query of the SQLi probe URL for parameter p and payload X reads
\* back as: p with one of its original values followed by X, and the fields
\* of every other parameter (repeated keys and blank values too) unchanged
\* and in their original order.
C26_SqliProbeRoundTrip ==
  p_out # NoCall /\ p_out.fn = "basic_diff" =>
    LET back == ParseQsl(p_out.new_q)
    IN /\ Others(back, p_in.p) = Others(p_in.query, p_in.p)
       /\ Own(back, p_in.p) # {}
       /\ \A v \in Own(back, p_in.p) :
            \E o \in Own(p_in.query, p_in.p) : v = o \o p_in.payload

\* Where no parameter is named twice, the round trip of basic_diff's probe
\* query is exact, field by field.
DistinctKeysRoundTrip ==
  /\ p_out # NoCall
  /\ p_out.fn = "basic_diff"
  /\ Len(FirstKeys(p_in.query)) = Len(p_in.query)
  => ParseQsl(p_out.new_q) =
       [i \in DOMAIN p_in.query |->
          IF p_in.query[i].key = p_in.p
          THEN [key |-> p_in.p, value |-> p_in.query[i].value \o p_in.payload]
          ELSE p_in.query[i]]

\* C27: the query of the XSS probe URL differs from the crawled query in the
\* tested parameter only: that field's value is the payload, and every other
\* field is where it was, with the value it had.
C27_XssProbeChangesOne ==
  p_out # NoCall /\ p_out.fn = "test_reflected_get" =>
    ParseQsl(p_out.new_q) =
      [i \in DOMAIN p_in.query |->
         IF p_in.query[i].key = p_in.p
         THEN [key |-> p_in.p, value |-> p_in.payload]
         ELSE p_in.query[i]]

\* Where no parameter is named twice, the probe query of test_reflected_get
\* differs from the crawled query in the tested field only.
DistinctKeysChangesOne ==
  /\ p_out # NoCall
  /\ p_out.fn = "test_reflected_get"
  /\ Len(FirstKeys(p_in.query)) = Len(p_in.query)
  => ParseQsl(p_out.new_q) =
       [i \in DOMAIN p_in.query |->
          IF p_in.query[i].key = p_in.p
          THEN [key |-> p_in.p, value |-> p_in.payload]
          ELSE p_in.query[i]]


\* =========================================================================
\* _similarity                                                     (SimSpec)
\* =========================================================================
\* difflib.SequenceMatcher(None, a, b).ratio() on texts shorter than the
\* 200 characters from which the matcher sets popular characters aside.
\* Positions count from 1; a range alo..ahi leaves ahi out, as in Python.

MaxText == 4

TextChars == {"a", "b"}

ShortTexts == UNION { [1..n -> TextChars] : n \in 0..MaxText }

\* a[i:i+k] == b[j:j+k]
SameBlock(a, b, i, j, k) == \A d \in 0..(k - 1) : a[i + d] = b[j + d]

\* the matching blocks within a[alo:ahi] and b[blo:bhi]
BlocksIn(a, b, alo, ahi, blo, bhi) ==
  { x \in (alo..(ahi - 1)) \X (blo..(bhi - 1)) \X (1..(ahi - alo)) :
      /\ x[1] + x[3] <= ahi
      /\ x[2] + x[3] <= bhi
      /\ SameBlock(a, b, x[1], x[2], x[3]) }

\* SequenceMatcher.find_longest_match: the longest block; of the longest,
\* the one that starts earliest in a; of those, earliest in b
FindLongestMatch(a, b, alo, ahi, blo, bhi) ==
  LET blocks == BlocksIn(a, b, alo, ahi, blo, bhi)
  IN IF blocks = {} THEN <<alo, blo, 0>>
     ELSE CHOOSE x \in blocks : \A y \in blocks :
            \/ x[3] > y[3]
            \/ x[3] = y[3] /\ x[1] < y[1]
            \/ x[3] = y[3] /\ x[1] = y[1] /\ x[2] <= y[2]

\* SequenceMatcher.get_matching_blocks, summed: the longest block, then the
\* same to its left and to its right
RECURSIVE MatchedIn(_, _, _, _, _, _)
MatchedIn(a, b, alo, ahi, blo, bhi) ==
  LET x == FindLongestMatch(a, b, alo, ahi, blo, bhi)
      i == x[1]
      j == x[2]
      k == x[3]
  IN IF k = 0 THEN 0
     ELSE k + (IF alo < i /\ blo < j
               THEN MatchedIn(a, b, alo, i, blo, j) ELSE 0)
            + (IF i + k < ahi /\ j + k < bhi
               THEN MatchedIn(a, b, i + k, ahi, j + k, bhi) ELSE 0)

\* a ratio, as a fraction
ONE == [num |-> 1, den |-> 1]

SameRatio(r, s) == r.num * s.den = s.num * r.den

\* difflib._calculate_ratio, counting each match once
CalculateRatioHalved(matches, length) ==
  IF length > 0 THEN [num |-> matches, den |-> length] ELSE ONE

\* difflib._calculate_ratio: 2.0 * matches / length, and 1.0 for no length
CalculateRatio(matches, length) ==
  IF length > 0 THEN [num |-> 2 * matches, den |-> length] ELSE ONE

\* xss_tester.py:35-36  SequenceMatcher(None, a, b).ratio()
SequenceMatcherRatio(a, b) ==
  CalculateRatio(MatchedIn(a, b, 1, Len(a) + 1, 1, Len(b) + 1),
                 Len(a) + Len(b))

\* _similarity(a, b) is called
SimInit ==
  /\ EarlyIdle
  /\ StreamIdle
  /\ SqliIdle
  /\ p_out = NoCall
  /\ \E a \in ShortTexts, b \in ShortTexts :
       p_in = [fn |-> "_similarity", a |-> a, b |-> b]

\* xss_tester.py:35-36
SimilarityReturns ==
  /\ p_in.fn = "_similarity"
  /\ p_out = NoCall
  /\ p_out' = [fn |-> p_in.fn, ratio |-> SequenceMatcherRatio(p_in.a, p_in.b)]
  /\ UNCHANGED <<early, svars, bvars, p_in>>

SimNext == SimilarityReturns

SimSpec == SimInit /\ [][SimNext]_vars

\* C28, as claimed: similarity(A, A) = 1.0 for every text A, and
\* similarity(A, B) = similarity(B, A) for all texts A and B.
C28_ReflexiveSymmetric ==
  p_out # NoCall =>
    /\ p_in.a = p_in.b => SameRatio(p_out.ratio, ONE)
    /\ SameRatio(p_out.ratio, SequenceMatcherRatio(p_in.b, p_in.a))

\* C28, amended: similarity(A, A) = 1.0 for every text A, and every
\* similarity lies between 0.0 and 1.0; similarity(A, B) and
\* similarity(B, A) may differ.
C28_Reflexive ==
  p_out # NoCall =>
    /\ p_in.a = p_in.b => SameRatio(p_out.ratio, ONE)
    /\ 0 <= p_out.ratio.num
    /\ p_out.ratio.num <= p_out.ratio.den

C28_Witness ==
  /\ p_out # NoCall
  /\ p_out.fn = "_similarity"
  /\ p_in.a = <<"a", "b", "b", "a">>
  /\ p_in.b = p_in.a
  /\ p_out.ratio = [num |-> 8, den |-> 8]


\* =========================================================================
\* SQLiTester._parse_sqlmap_output                              (SqlmapSpec)
\* =========================================================================
\* raw is the sequence of its lines.  A line is blank, or has an optional
\* [hh:mm:ss] stamp, an optional [LEVEL] tag and a message; a message is the
\* sequence of its sentences, which "." separates.

MaxLines == 2

VULNERABLE == "GET parameter 'id' is vulnerable"

PAYLOAD_LINE == "Payload: id=1 AND 1=1"

TESTING == "testing connection to the target URL"

UNABLE == "unable to proceed"

\* sqli_tester.py:333-345: the sentences with a confirmed keyword
\* ("is vulnerable", "parameter", "payload:")
ConfirmedSentences == {VULNERABLE, PAYLOAD_LINE}

\* sqli_tester.py:348-366: the sentences with an ignored keyword
\* ("testing", "connection")
IgnoredSentences == {TESTING}

Messages == { <<VULNERABLE>>, <<VULNERABLE, PAYLOAD_LINE>>, <<TESTING>>, <<UNABLE>> }

BlankLine == [stamp |-> "", tag |-> "", msg |-> <<>>]

\* "[12:00:01] [CRITICAL] ...", "[CRITICAL] ...", or a line with no tag
OutputLines ==
    [stamp : {"", "12:00:01"}, tag : {"CRITICAL", "WARNING"}, msg : Messages]
  \cup [stamp : {""}, tag : {""}, msg : Messages]
  \cup {BlankLine}

RawOutputs == UNION { [1..n -> OutputLines] : n \in 0..MaxLines }

\* sqli_tester.py:376-382: the level of line_re's match, or OTHER
LevelOf(line) == IF line.tag # "" THEN line.tag ELSE "OTHER"

\* sqli_tester.py:387  any(k in low for k in ignore_keywords)
Ignored(msg) == \E i \in DOMAIN msg : msg[i] \in IgnoredSentences

\* sqli_tester.py:391  any(k in low for k in confirmed_keywords) or lvl in (...)
Kept(lvl, msg) ==
  \/ \E i \in DOMAIN msg : msg[i] \in ConfirmedSentences
  \/ lvl \in {"CRITICAL", "ERROR"}

\* sqli_tester.py:393  key in seen, in a parser that remembers nothing
SeenNever(key, keys) == FALSE

\* sqli_tester.py:393  key in seen
Seen(key, keys) == key \in keys

\* sqli_tester.py:396  msg.split(".", 1)[0].strip()
Short(msg) == <<msg[1]>>

\* _parse_sqlmap_output(raw) is called
SqlmapInit ==
  /\ EarlyIdle
  /\ StreamIdle
  /\ SqliIdle
  /\ p_out = NoCall
  /\ \E raw \in RawOutputs : p_in = [fn |-> "_parse_sqlmap_output", raw |-> raw]

\* sqli_tester.py:326-327: nothing to parse
ParseNothing ==
  /\ p_in.fn = "_parse_sqlmap_output"
  /\ p_out = NoCall
  /\ p_in.raw = <<>>
  /\ p_out' = [fn |-> "returned", findings |-> <<>>, seen |-> {}, next |-> 1]
  /\ UNCHANGED <<early, svars, bvars, p_in>>

\* sqli_tester.py:329-330
ParseStart ==
  /\ p_in.fn = "_parse_sqlmap_output"
  /\ p_out = NoCall
  /\ p_in.raw # <<>>
  /\ p_out' = [fn |-> "lines", findings |-> <<>>, seen |-> {}, next |-> 1]
  /\ UNCHANGED <<early, svars, bvars, p_in>>

\* sqli_tester.py:372-403: one turn of the loop over raw.splitlines()
ParseLine ==
  /\ p_out # NoCall
  /\ p_out.fn = "lines"
  /\ p_out.next <= Len(p_in.raw)
  /\ LET line == p_in.raw[p_out.next]
         lvl == LevelOf(line)
         msg == line.msg
         key == <<lvl, msg>>
         add == /\ line # BlankLine
                /\ ~Ignored(msg)
                /\ Kept(lvl, msg)
                /\ ~Seen(key, p_out.seen)
     IN p_out' = [p_out EXCEPT
          !.next = @ + 1,
          !.seen = IF add THEN @ \cup {key} ELSE @,
          !.findings = IF add
                       THEN Append(@, [level |-> lvl, message |-> Short(msg),
                                       detail |-> msg, line |-> line])
                       ELSE @]
  /\ UNCHANGED <<early, svars, bvars, p_in>>

\* sqli_tester.py:405
ParseReturns ==
  /\ p_out # NoCall
  /\ p_out.fn = "lines"
  /\ p_out.next > Len(p_in.raw)
  /\ p_out' = [p_out EXCEPT !.fn = "returned"]
  /\ UNCHANGED <<early, svars, bvars, p_in>>

SqlmapNext == ParseNothing \/ ParseStart \/ ParseLine \/ ParseReturns

SqlmapSpec == SqlmapInit /\ [][SqlmapNext]_vars

\* the lines "[CRITICAL] GET parameter 'id' is vulnerable" of raw
ScenarioLines ==
  { i \in DOMAIN p_in.raw :
      /\ p_in.raw[i].tag = "CRITICAL"
      /\ p_in.raw[i].msg = <<VULNERABLE>> }

C30_FailedFetchIsolated ==
  [][\A w \in Workers :
       RequestFail(w) \/ TextFail(w) =>
         /\ wurl[w] \in Range(seen')
         /\ found_forms' = found_forms
         /\ q' = q
         /\ unfinished' = unfinished - 1
         /\ wpc'[w] = "idle"
         /\ \A v \in Workers \ {w} : wpc'[v] = wpc[v]
         /\ mainpc' = mainpc]_vars

\* the home page has links and a form, its fetch failed, and crawl() has
\* returned with the one URL
C30_Witness ==
  /\ mainpc = "returned"
  /\ site = "diamond"
  /\ max_pages > 1
  /\ fetched = (UHome :> 1)
  /\ seen = <<UHome>>
  /\ found_forms = <<>>
  /\ result.urls = <<UHome>>
  /\ \A w \in Workers : wpc[w] \in {"exited", "cancelled", "none"}


\* =========================================================================
\* The teardown of Crawler.crawl                                      (Spec)
\* =========================================================================

\* q.join() has returned, or can return
Joined == mainpc = "returned" \/ (mainpc = "join" /\ unfinished = 0)

\* C31: when crawl() cancels its workers after q.join(), no worker is
\* between taking a URL and marking its item done: each has finished or
\* waits in q.get() on the empty queue, so no fetch is cancelled in flight.
C31_NoMidFlightCancel ==
  Joined =>
    /\ Holding = {}
    /\ q = <<>>
    /\ \A w \in Workers :
         /\ wpc[w] \in {"none", "idle", "exited", "cancelled"}
         /\ wurl[w] = NoUrl

\* a crawl of several pages returned and cancelled a waiting worker
C31_Witness ==
  /\ mainpc = "returned"
  /\ site = "diamond"
  /\ Len(seen) >= 3
  /\ \E w \in Workers : wpc[w] = "cancelled"
  /\ \E w \in Workers : wpc[w] = "exited"


\* C32: no step puts a URL on the queue that is in visited when the step is
\* taken: a link found on a page is enqueued only if its target is not in
\* self.seen at the time the page is parsed.
C32_SeenNotEnqueued ==
  [][\A u \in Range(seen) : Count(q', u) <= Count(q, u)]_vars

\* the position of u in the sequence s, 0 when it is not there
PlaceIn(s, u) ==
  IF u \in Range(s) THEN CHOOSE i \in DOMAIN s : s[i] = u ELSE 0

\* page b, which links to c, was parsed (its form was recorded) when c was
\* in visited already, and c was fetched once
C32_Witness ==
  /\ mainpc = "returned"
  /\ site = "diamond"
  /\ \E i \in DOMAIN found_forms : found_forms[i].method = "post"
  /\ PlaceIn(seen, UC) > 0
  /\ PlaceIn(seen, UC) < PlaceIn(seen, UB)
  /\ fetched[UC] = 1


\* =========================================================================
\* Crawler._normalize on the links of a page                      (NormSpec)
\* =========================================================================

MaxDepth == 2

UApp == Abs("https", "site", <<"app">>)

\* the paths below the base at which a crawled page may live: /a, /a/, /a/a
PagePaths == UNION { [1..n -> {"a", ""}] : n \in 0..MaxDepth }

\* the href values of a page
Hrefs ==
  { Rel(<<"b">>), Rel(<<"b", "c">>), RootRel(<<"b">>), RootRel(<<>>),
    ProtoRel("site", <<"b">>), ProtoRel("other", <<"x">>), UOther, UMail }

\* crawler.py:9-15  Crawler(base_url): nothing crawled yet
Constructed(b) ==
  /\ base_url = b
  /\ base = RStripSlash(b)
  /\ site = "single"
  /\ max_pages = 1
  /\ concurrency = 1
  /\ sem = 1
  /\ seen = <<>>
  /\ found_forms = <<>>
  /\ q = <<>>
  /\ unfinished = 0
  /\ nworkers = 0
  /\ wpc = [w \in Workers |-> "none"]
  /\ wurl = [w \in Workers |-> NoUrl]
  /\ mainpc = "init"
  /\ result = NoResult
  /\ fetched = [u \in {} |-> 0]

\* _parse(html, current) meets <a href=url>
NormInit ==
  /\ \E b \in {UHome, UHomeSlash, UApp} : Constructed(b)
  /\ FetchIdle
  /\ MergeIdle
  /\ XssIdle
  /\ StreamIdle
  /\ SqliIdle
  /\ p_out = NoCall
  /\ \E path \in PagePaths, url \in Hrefs :
       p_in = [fn |-> "_normalize",
               current |-> Abs(base.scheme, base.netloc, base.path \o path),
               url |-> url]

\* crawler.py:35-36  links.add(self._normalize(a['href']))
NormalizeLink ==
  /\ p_in.fn = "_normalize"
  /\ p_out = NoCall
  /\ p_out' = [fn |-> p_in.fn, link |-> Normalize(p_in.url)]
  /\ UNCHANGED <<early, svars, bvars, p_in>>

NormNext == NormalizeLink

NormSpec == NormInit /\ [][NormNext]_vars

\* the directory of a path: all of it but the last segment
DirOf(path) == IF path = <<>> THEN <<>> ELSE SubSeq(path, 1, Len(path) - 1)

\* the link as the claim resolves it: //host/path with the start URL's
\* scheme, /path at the base origin, a relative path against the page
ResolvedOnPage(current, u) ==
  CASE u.kind = "protorel" -> Abs(Scheme(base), u.netloc, u.path)
    [] u.kind = "rootrel" -> Abs(base.scheme, base.netloc, u.path)
    [] u.kind = "rel" ->
         Abs(current.scheme, current.netloc, DirOf(current.path) \o u.path)
    [] OTHER -> u

\* C33: every link of every page is normalized as the claim says: a
\* protocol-relative link gets the start URL's scheme, a root-relative link
\* the base origin, and a relative path is resolved against the page on
\* which the link was found.
C33_RelativeAgainstPage ==
  p_out # NoCall /\ p_out.fn = "_normalize" =>
    p_out.link = ResolvedOnPage(p_in.current, p_in.url)


\* =========================================================================
\* The argument list of the sqlmap container                      (ArgsSpec)
\* =========================================================================

MaxExtraArgs == 2

\* what a caller may pass as extra_args
ExtraFlags == {"--level=5", "--threads=2", "--crawl=1"}

ExtraArgs == UNION { [1..n -> ExtraFlags] : n \in 0..MaxExtraArgs }

TargetUrls == {"http://site/p?id=1", "http://localhost:8000/p?id=1"}

\* sqli_tester.py:35-52  _rewrite_localhost_for_container
RewriteLocalhost(url) ==
  IF url = "http://localhost:8000/p?id=1"
  THEN "http://host.docker.internal:8000/p?id=1"
  ELSE url

\* the forms the crawler found: none, a GET form, a POST form, a JSON form
GetForm == [method |-> "get", enctype |-> "", data |-> ""]

PostForm == [method |-> "post", enctype |-> "", data |-> "user=test&pass=test"]

JsonForm == [method |-> "post", enctype |-> "application/json",
             data |-> "{\"q\": \"test\"}"]

FormLists == { <<>>, <<GetForm>>, <<GetForm, PostForm>>, <<JsonForm, PostForm>> }

\* sqli_tester.py:163-171
SQLMAP_DEFAULTS ==
  <<"--batch", "--random-agent", "--smart", "--flush-session",
    "--level=3", "--risk=2", "--threads=5">>

\* sqli_tester.py:208-240  _prepare_post_args_from_form
PreparePostArgs(form) ==
  IF form.method # "post" THEN <<>>
  ELSE IF form.enctype = "application/json"
  THEN <<"--data", form.data, "--headers", "Content-Type: application/json">>
  ELSE <<"--data", form.data>>

\* sqli_tester.py:243-254  the arguments of the first form that gives any
RECURSIVE FirstPostArgs(_)
FirstPostArgs(forms) ==
  IF forms = <<>> THEN <<>>
  ELSE IF PreparePostArgs(Head(forms)) # <<>>
  THEN PreparePostArgs(Head(forms))
  ELSE FirstPostArgs(Tail(forms))

\* sqli_tester.py:174-258  final_args of run_sqlmap_async(url, extra_args, forms)
FinalArgs(url, extra_args, forms) ==
  LET args == IF extra_args # <<>> THEN extra_args ELSE SQLMAP_DEFAULTS
  IN <<"-u", RewriteLocalhost(url)>> \o args \o FirstPostArgs(forms)

\* a.startswith("--crawl"), a.startswith("--threads")
IsCrawlFlag(a) == a \in {"--crawl=0", "--crawl=1"}

IsThreadsFlag(a) == a \in {"--threads=2", "--threads=5", "--threads=10"}

\* sqli_tester.py:447-453  local_extra of run_sqlmap_for_urls._worker
LocalExtra(extra_args) ==
  LET with_crawl == IF \E i \in DOMAIN extra_args : IsCrawlFlag(extra_args[i])
                    THEN extra_args
                    ELSE Append(extra_args, "--crawl=0")
  IN IF \E i \in DOMAIN with_crawl : IsThreadsFlag(with_crawl[i])
     THEN with_crawl
     ELSE Append(with_crawl, "--threads=10")

\* the tool is to be run on url, directly or through run_sqlmap_for_urls
ArgsInit ==
  /\ EarlyIdle
  /\ StreamIdle
  /\ SqliIdle
  /\ p_out = NoCall
  /\ \E fn \in {"run_sqlmap_async", "run_sqlmap_for_urls"},
        url \in TargetUrls, extra_args \in ExtraArgs, forms \in FormLists :
       p_in = [fn |-> fn, url |-> url, extra_args |-> extra_args,
               forms |-> forms]

\* sqli_tester.py:143-262  run_sqlmap_async(url, extra_args, forms)
RunSqlmapAsync ==
  /\ p_in.fn = "run_sqlmap_async"
  /\ p_out = NoCall
  /\ p_out' = [fn |-> "_run_sqlmap_container",
               cmd_args |-> FinalArgs(p_in.url, p_in.extra_args, p_in.forms)]
  /\ UNCHANGED <<early, svars, bvars, p_in>>

\* sqli_tester.py:443-455  the worker of run_sqlmap_for_urls for one url
RunSqlmapWorker ==
  /\ p_in.fn = "run_sqlmap_for_urls"
  /\ p_out = NoCall
  /\ p_out' = [fn |-> "_run_sqlmap_container",
               cmd_args |-> FinalArgs(p_in.url, LocalExtra(p_in.extra_args),
                                      p_in.forms)]
  /\ UNCHANGED <<early, svars, bvars, p_in>>

ArgsNext == RunSqlmapAsync \/ RunSqlmapWorker

ArgsSpec == ArgsInit /\ [][ArgsNext]_vars

\* the flags the tool gets when the caller names none
DefaultFlags == {"--batch", "--random-agent", "--level=3", "--risk=2", "--threads=5"}

\* C34: when the caller gives no extra flags, the container is run with
\* "-u", the target URL, and then the default flags --batch,
\* --random-agent, --level=3, --risk=2 and --threads=5, whether the call is
\* run_sqlmap_async or comes through run_sqlmap_for_urls.
C34_DefaultFlags ==
  p_out # NoCall /\ p_in.extra_args = <<>> =>
    /\ p_out.cmd_args[1] = "-u"
    /\ p_out.cmd_args[2] = RewriteLocalhost(p_in.url)
    /\ \A f \in DefaultFlags :
         \E i \in 3..Len(p_out.cmd_args) : p_out.cmd_args[i] = f

\* C34 holds of the calls of run_sqlmap_async itself.
DirectCallDefaultFlags ==
  p_out # NoCall /\ p_in.extra_args = <<>> /\ p_in.fn = "run_sqlmap_async" =>
    /\ p_out.cmd_args[1] = "-u"
    /\ p_out.cmd_args[2] = RewriteLocalhost(p_in.url)
    /\ \A f \in DefaultFlags :
         \E i \in 3..Len(p_out.cmd_args) : p_out.cmd_args[i] = f


\* =========================================================================
\* The permits of Fetcher.sem and of the host semaphores          (FetchSpec)
\* =========================================================================

\* the calls inside "async with self.sem"
InFetcherBlock ==
  { c \in DOMAIN call : call[c].pc \in {"fsleep", "inflight", "backoff"} }

\* the calls between sem.acquire() and sem.release() of host h
InHostBlock(h) ==
  { c \in DOMAIN call : call[c].pc = "hsleep" /\ call[c].host = h }

\* C35: every permit taken is held by a call that is still inside the
\* guarded block, whatever the outcome of the calls before: the fetcher's
\* semaphore and each host's semaphore are short of their full count (the
\* configured concurrency, and 4) by exactly the calls inside; with no call
\* in progress both are full again.
C35_NoPermitLeak ==
  /\ f_sem = f_conc - Cardinality(InFetcherBlock)
  /\ \A h \in Hosts : host_sem[h] = HOST_PERMITS - Cardinality(InHostBlock(h))
  /\ (\A c \in DOMAIN call : call[c].pc \in {"idle", "done"}) =>
       /\ f_sem = f_conc
       /\ \A h \in Hosts : host_sem[h] = HOST_PERMITS

\* one call failed after its retries, one succeeded, and nothing is held
C35_Witness ==
  /\ \A c \in DOMAIN call : call[c].pc = "done"
  /\ \E c \in DOMAIN call : call[c].raised
  /\ \E c \in DOMAIN call : call[c].reply.ok
  /\ \E m \in sent : m.retry
  /\ f_sem = f_conc
  /\ \A h \in Hosts : host_sem[h] = HOST_PERMITS


\* =========================================================================
\* A failed fetch inside the retry loop                             (XssSpec)
\* =========================================================================

\* the payload of history o has exactly one finding, an error finding
\* without similarity
OnlyErrorFinding(o) ==
  \E i \in FindingsOf(o.tmpl) :
    /\ FindingsOf(o.tmpl) = {i}
    /\ "error" \in DOMAIN results[i]
    /\ "similarity" \notin DOMAIN results[i]
    /\ ~results[i].reflected
    /\ ~results[i].suspected

\* C36: the first failed fetch ends the retry loop of its payload (no
\* attempt follows a failure), and the payload's finding is then an error
\* finding, also when earlier attempts of the payload returned a body: no
\* finding with a similarity is reported for it.
C36_FirstFailureEnds ==
  /\ x_pc = "attempt" => ~x_obs.failed
  /\ \A o \in Range(x_trace) : o.failed => OnlyErrorFinding(o)

\* the same for failures whose message is not empty
NamedFailureEnds ==
  /\ x_pc = "attempt" => ~x_obs.failed
  /\ \A o \in Range(x_trace) :
       (o.failed /\ Truthy(o.last_error)) => OnlyErrorFinding(o)


\* =========================================================================
\* basic_diff after a failed baseline                              (SqliSpec)
\* =========================================================================

\* the sweep of parameter p is over
SweepDone(p) == b_pc = "returned" \/ p < b_loop.p

\* C37: when the baseline fetch failed, the sweep goes on with an empty
\* baseline: every parameter is probed; a parameter is flagged suspected on
\* its first reply with a non-empty body or a status >= 500, which ends its
\* sweep; a failed probe makes no finding and the next payload is tried.
C37_FailedBaseline ==
  (b_pc \in {"probe", "returned"} /\ b_in.nparams > 0 /\ b_loop.base_failed) =>
    /\ b_loop.base_len = 0
    /\ \A p \in 1..b_in.nparams :
         LET log == LogOf(p)
         IN /\ SweepDone(p) => Len(log) >= 1
            /\ \A i \in DOMAIN log :
                 LET e == log[i]
                     flagged == e.reply.ok /\ (e.reply.len > 0 \/
                                               e.reply.status >= SERVER_ERROR)
                 IN /\ flagged => i = Len(log)
                    /\ flagged <=>
                         \E j \in FindingsFor(p) :
                           /\ b_results[j].payload = e.payload
                           /\ b_results[j].status = e.reply.status
                           /\ b_results[j].suspected
                    /\ (~flagged /\ i < Len(BASIC_PAYLOADS) /\ SweepDone(p))
                         => Len(log) > i

\* failed baseline; the first parameter's probes: a failure, an empty page,
\* then a page with a body, flagged; the second parameter's probes all fail
C37_Witness ==
  /\ b_pc = "returned"
  /\ b_in.nparams = 2
  /\ b_loop.base_failed
  /\ Len(LogOf(1)) = 3
  /\ ~LogOf(1)[1].reply.ok
  /\ LogOf(1)[2].reply = [ok |-> TRUE, status |-> 200, len |-> 0]
  /\ LogOf(1)[3].reply = [ok |-> TRUE, status |-> 200, len |-> 5]
  /\ \E j \in FindingsFor(1) : b_results[j].payload = BASIC_PAYLOADS[3]
  /\ Len(LogOf(2)) = 3
  /\ \A i \in 1..3 : ~LogOf(2)[i].reply.ok
  /\ FindingsFor(2) = {}


\* =========================================================================
\* The workers that remain to drain the queue                          (Spec)
\* =========================================================================

\* the worker tasks that have not ended
Alive ==
  { w \in Workers : wpc[w] \in {"idle", "check", "waitsem", "inflight", "text"} }

NoWorkerFailed == \A w \in Workers : wpc[w] # "failed"

\* a worker task that has ended, or was never created, stays so, and the
\* only way a worker ends by itself is from its wait on an empty queue
NoRespawn ==
  /\ nworkers > 0 => nworkers' = nworkers
  /\ \A w \in Workers :
       /\ wpc[w] \in {"exited", "failed", "cancelled"} => wpc'[w] = wpc[w]
       /\ (wpc[w] = "none" /\ mainpc # "init") => wpc'[w] = "none"
       /\ (wpc'[w] = "exited" /\ wpc[w] # "exited") =>
            (wpc[w] = "idle" /\ q = <<>>)

\* C38: workers are never respawned and a worker returns by itself only
\* from its timed wait on an empty queue; so long as no worker has failed,
\* whenever a URL is queued or being processed some worker is still alive.
C38_DrainerAlive ==
  /\ []((NoWorkerFailed /\ (q # <<>> \/ Holding # {})) => Alive # {})
  /\ [][NoRespawn]_vars

\* every worker but one has timed out, and the last one has put links
C38_Witness ==
  /\ NoWorkerFailed
  /\ mainpc = "join"
  /\ nworkers >= 2
  /\ Len(q) >= 2
  /\ Holding = {}
  /\ Cardinality(Alive) = 1
  /\ Cardinality({w \in Workers : wpc[w] = "exited"}) = nworkers - 1


\* =========================================================================
\* The workers of a stream under its semaphore                   (StreamSpec)
\* =========================================================================

\* the workers inside "async with sem" that are suspended in a probe
Probing == { w \in Tasks : s_task[w].pc \in {"probe", "dom"} }

\* the tasks of URLs without a query string
NoQueryTasks ==
  { w \in Tasks : s_task[w].target = [kind |-> "url", nparams |-> 0,
                                      bad |-> FALSE] }

\* C39: one task exists per URL (form) from the start, yet at most
\* min(concurrency, max_concurrency) of them are probing at a time, the
\* others waiting for the semaphore; the task of a URL without a query
\* string never sends a request and returns no finding.
C39_BoundedProbing ==
  /\ Cardinality(Probing) <= Min(s_in.concurrency, s_in.max_concurrency)
  /\ s_sem = Min(s_in.concurrency, s_in.max_concurrency) - Cardinality(Probing)
  /\ \A w \in NoQueryTasks :
       /\ s_task[w].pc \in {"new", "wait", "done"}
       /\ s_task[w].got = <<>>
       /\ s_task[w].out = <<>>
       /\ \A i \in DOMAIN s_stream : s_stream[i].task # w

\* a stream with one permit and two tasks: one worker is probing, the task
\* of a URL without a query string waits behind it
C39_Witness ==
  /\ s_in.kind = "urls"
  /\ s_in.concurrency = 1
  /\ s_in.max_concurrency = 2
  /\ Len(s_task) = 2
  /\ 1 \in NoQueryTasks
  /\ s_task[1].pc = "wait"
  /\ s_task[2].pc = "probe"
  /\ s_sem = 0

====
